---- MODULE Spec2Model ----
(***************************************************************************)
(* Federation transaction ingress of dendrite                              *)
(* (federationapi/routing/send.go): Send, txnReq.processTransaction,       *)
(* txnReq.processEvent, gap recovery via /get_missing_events and the       *)
(* state snapshot path (/state_ids, /state, /event).                       *)
(*                                                                         *)
(* One behaviour of Spec is one inbound transaction.  The program is       *)
(* sequential; pc is its position, and every action is the code between   *)
(* two external calls, so that cancellation of the request context        *)
(* (action Cancel) can fall between any two calls.  The collaborators      *)
(* (Room-Server API, federation client, producers, key ring) answer        *)
(* nondeterministically.                                                   *)
(*                                                                         *)
(* The components the transaction hands its events to have specifications *)
(* of their own: SpecEDU (the transaction with longer EDU lists),          *)
(* SpecReplay (two runs of the missing-state loop of                       *)
(* lookupMissingStateViaStateIDs over the same remote), SpecRoomserver     *)
(* (RoomserverInputAPI.InputRoomEvents and WriteOutputEvents),             *)
(* SpecTopology (inserts into the sync API's topology table), SpecRange    *)
(* (one selectEventIDsInRange call over any contents of that table),       *)
(* SpecStateLookup (one lookupStateBeforeEvent call with the /state_ids    *)
(* path in full; SpecStateLookupFair adds that the function keeps running) *)
(* and SpecRollForward (the roll-forward of the resolved state).           *)
(***************************************************************************)
EXTENDS Integers, Sequences, FiniteSets, TLC

\* ---------------------------------------------------------------- bounds
MaxPDUs == 2
MaxEDUs == 1
MaxMissing == 2
MaxFaults == 1
MaxEDUsLong == 2
MaxPDUsShort == 1
MaxInputs == 2
MaxInvites == 1
MaxUpdates == 2
MaxPosition == 2
MaxStateIDs == 2
MaxResolved == 2

\* ------------------------------------------------- the events of the run
\* A small room DAG   r <- p <- e <- x   and   p <- n,  all in room "!r:a";
\* event a names p as its prev event and a room the local server is not in.
EventIDs == {"r", "p", "e", "x", "n", "a"}

PrevEventIDs(ev) ==
    CASE ev = "p" -> <<"r">>
      [] ev = "e" -> <<"p">>
      [] ev = "x" -> <<"e", "r">>
      [] ev = "n" -> <<"p">>
      [] ev = "a" -> <<"p">>
      [] OTHER    -> <<>>

RoomID(ev) == IF ev = "a" THEN "!unk:a" ELSE "!r:a"

\* the depth field of the events
Depth(ev) ==
    CASE ev = "r" -> 18 [] ev = "p" -> 19 [] ev = "x" -> 21 [] OTHER -> 20

\* t.Origin: the server the transaction came from
Origin == "origin.example"

\* rooms for which QueryStateAfterEvents answers RoomExists = true
LocalRooms == {"!r:a"}

\* events the Matrix auth rules reject against the local state after their
\* prev events (gomatrixserverlib.Allowed is a pure function of both)
DeniedByLocalState == {"n"}

\* raw PDUs of a transaction: the JSON of an event, bytes that are not a
\* JSON object, or an object with a room_id that is not a valid event
RawPDUs == {"e", "x", "n", "a", "notjson", "badevent"}

\* events a remote may return from /get_missing_events
MissingCandidates == {"p", "e", "x", "n", "a"}

\* EDUs of a transaction: their type and their raw content
EDUContents == {"{!r:a,@u:b,true}", "{!r:a,@u:b,false}", "garbage"}
EDUKinds == [type : {"m.typing"}, content : EDUContents]
                \cup [type : {"m.receipt"}, content : {"{!r:a,@u:b,true}"}]

\* json.Unmarshal of the content into typingPayload, lines 222-226
UnmarshalTyping(content) ==
    CASE content = "{!r:a,@u:b,true}" ->
            [err |-> FALSE, RoomID |-> "!r:a", UserID |-> "@u:b", Typing |-> TRUE]
      [] content = "{!r:a,@u:b,false}" ->
            [err |-> FALSE, RoomID |-> "!r:a", UserID |-> "@u:b", Typing |-> FALSE]
      [] OTHER ->
            [err |-> TRUE, RoomID |-> "", UserID |-> "", Typing |-> FALSE]

TypingTimeoutMS == 30 * 1000

RECURSIVE SeqsUpTo(_, _)
SeqsUpTo(S, n) ==
    IF n = 0 THEN {<<>>}
    ELSE LET shorter == SeqsUpTo(S, n - 1)
         IN  shorter \cup {Append(s, x) : s \in shorter, x \in S}

Range(s) == {s[n] : n \in DOMAIN s}

\* --------------------------------------------------------------- errors
NoError == "nil"
ErrorKinds == {"roomNotFoundError", "NotAllowed", "missingPrevEventsError",
               "unmarshalError", "verifySigError", "other", "cancelled"}

VARIABLES
    PDUs,          \* t.PDUs: raw PDUs of the transaction
    EDUs,          \* t.EDUs
    held,          \* event ids the Room-Server held when the transaction came
    known,         \* event ids the local Room-Server holds
    cancelled,     \* the request context t.context is cancelled
    cancelledAt,   \* number of calls made before the cancellation, -1 if none
    pc,            \* position in the code
    i,             \* index of the PDU in the validation / processing loop
    pdus,          \* parsed and signature-verified events (line 124)
    cur,           \* the event e of the running processEvent invocation
    isInboundTxn,  \* its isInboundTxn argument
    newEvents,     \* append(newEvents, e) of getMissingEvents (line 566)
    j,             \* index in newEvents; 0 outside the backfill loop
    k,             \* index of the prev event in lookupStateAfterEvent
    u,             \* index in the EDU loop
    results,       \* the result map: event id -> "" | error string
    txnErr,        \* the error processTransaction returned
    code,          \* HTTP status of the response; 0 while running
    calls,         \* log of the calls made so far
    faults,        \* collaborator failures so far (other than cancellation)
    verified,      \* event ids whose signatures were verified in this run
    \* two runs of the missing-state loop (SpecReplay)
    remote,        \* the remote's answer to GetEvent, by event id
    missing,       \* the ids of the map missing, line 620
    runs,          \* per run: ids still to visit, ids fetched, outcome
    \* RoomserverInputAPI (SpecRoomserver)
    request,       \* the InputRoomEventsRequest
    inputPc,       \* position in InputRoomEvents
    inputIdx,      \* index of its running loop
    roomserverDB,  \* the inputs applied to r.DB
    inputErr,      \* what InputRoomEvents returned
    roomID,        \* WriteOutputEvents: its roomID argument
    updates,       \*   its updates argument
    sent,          \*   the batches handed to r.Producer.SendMessages
    writeErr,      \*   what it returned
    \* the topology table of the sync API (SpecTopology)
    topology,      \* the rows of syncapi_output_room_events_topology
    lastInsert,    \* the last insertEventInTopology call and its result
    lastSelect,    \* the last selectEventIDsInRange call and its result
    \* one lookupStateBeforeEvent call (SpecStateLookup)
    stateIDs,      \* what the remote answers to /state_ids
    localEvents,   \* the event ids the Room-Server holds
    eventHeld,     \* it holds the event the state is looked up before
    lookupPc,      \* position in lookupStateBeforeEvent
    queryList,     \* the list of the running QueryEventsByID pass, line 603
    haveEventMap,  \* the ids of the events in haveEventMap
    haveEventIDs,  \* the ids marked in haveEventIDs
    missingIDs,    \* the ids of the map missing still to be visited
    respState,     \* the RespState under construction
    lookupErr,     \* the error the lookup returned
    lookupLog,     \* the calls made by the lookup
    \* the roll-forward of lookupStateAfterEvent (SpecRollForward)
    resolvedStateEvents,  \* the result of ResolveConflicts, line 393
    extremity,            \* the backwards extremity e
    rolled                \* the state events of the RespState returned

txnVars == <<PDUs, EDUs, held, known, cancelled, cancelledAt, pc, i, pdus, cur,
             isInboundTxn, newEvents, j, k, u, results, txnErr, code, calls, faults,
             verified>>

replayVars == <<remote, missing, runs>>

roomserverVars == <<request, inputPc, inputIdx, roomserverDB, inputErr,
                    roomID, updates, sent, writeErr>>

topologyVars == <<topology, lastInsert, lastSelect>>

lookupVars == <<stateIDs, localEvents, eventHeld, lookupPc, queryList, haveEventMap,
                haveEventIDs, missingIDs, respState, lookupErr, lookupLog>>

rollVars == <<resolvedStateEvents, extremity, rolled>>

vars == <<txnVars, replayVars, roomserverVars, topologyVars, lookupVars, rollVars>>

\* what a transaction never changes: its inputs, and the state of the
\* components that run outside the request
inputs == <<PDUs, EDUs, held, replayVars, roomserverVars, topologyVars,
            lookupVars, rollVars>>

context == <<cancelled, cancelledAt>>

\* ------------------------------------------------------------- helpers
\* one entry of the call log
\* (op: the call, ev: the event it is about, pdu / inbound: the top-level
\* PDU and the isInboundTxn flag of the invocation making it, ctx: the
\* context it runs on, res: its answer, args: its further arguments)
Call(op, ev, ctx, res) ==
    [op |-> op, ev |-> ev, pdu |-> i, inbound |-> isInboundTxn,
     ctx |-> ctx, res |-> res, args |-> <<>>]

\* the answers of a collaborator: "ok", or one of the failures in bad while
\* the run may still see a failure
Answers(bad) == IF faults < MaxFaults THEN {"ok"} \cup bad ELSE {"ok"}

\* what a call that honours t.context can answer
CtxOutcomes == IF cancelled THEN {"cancelled"} ELSE Answers({"err"})

\* a call on t.context that can also fail in the ways of bad
CtxOutcomesOr(bad) == IF cancelled THEN {"cancelled"} ELSE Answers({"err"} \cup bad)

Fault(res) == faults' = IF res \in {"ok", "cancelled"} THEN faults ELSE faults + 1

\* the error a failed context-honouring call returns
ErrOf(res) == IF res = "cancelled" THEN "cancelled" ELSE "other"

Put(m, key, v) == [x \in DOMAIN m \cup {key} |-> IF x = key THEN v ELSE m[x]]

\* Send, lines 74-97: the status for the error of processTransaction
HTTPStatus(err) ==
    IF err = NoError THEN 200
    ELSE IF err \in {"roomNotFoundError", "unmarshalError", "verifySigError"}
         THEN 400
         ELSE 500

\* processTransaction, lines 170-174: errors that skip the event only
Skippable(err) ==
    err \in {"roomNotFoundError", "NotAllowed", "missingPrevEventsError"}

\* Send, lines 74-97: the JSON of the response for what processTransaction
\* returned (nil, err at line 174; the result map, nil at line 190)
ResponseJSON(err) ==
    IF err = NoError
    THEN [kind |-> "RespSend", PDUs |-> results]
    ELSE IF HTTPStatus(err) = 400
         THEN [kind |-> "BadJSON", PDUs |-> <<>>]
         ELSE [kind |-> "InternalServerError", PDUs |-> <<>>]

\* (a slip: the PDU loop is left with break, the EDUs are still processed)
AbortWithBreak(err) ==
    /\ txnErr' = err
    /\ code' = HTTPStatus(err)
    /\ pc' = "processEDUs"
    /\ UNCHANGED <<i, cur, isInboundTxn, newEvents, j, k, u, results>>

\* processTransaction returns nil, err: the transaction is aborted
Abort(err) ==
    /\ txnErr' = err
    /\ code' = HTTPStatus(err)
    /\ pc' = "done"
    /\ UNCHANGED <<i, cur, isInboundTxn, newEvents, j, k, u, results>>

\* (a slip: the loop walks the PDUs from the last to the first)
PDUFromTheEnd(n) == pdus[Len(pdus) + 1 - n]

\* line 152: the n-th element of the range loop over pdus
PDUAt(n) == pdus[n]

\* loop head of lines 152-153: processEvent(pdus[n], true)
StartEvent(n) ==
    /\ i' = n
    /\ cur' = PDUAt(n)
    /\ isInboundTxn' = TRUE
    /\ newEvents' = <<>>
    /\ j' = 0
    /\ k' = 0
    /\ pc' = "processEvent"

\* (a slip: the result keyed by the event processEvent handled last)
ResultKeyOfLastEvent(n) == cur

\* lines 179 and 184: the key of the result is e.EventID() of the PDU
ResultKey(n) == PDUAt(n)

\* processTransaction, lines 154-186: the top-level processEvent returned
TopReturn(err) ==
    IF err # NoError /\ ~Skippable(err)
    THEN Abort(err)
    ELSE /\ results' = Put(results, ResultKey(i), IF err = NoError THEN "" ELSE err)
         /\ UNCHANGED <<txnErr, code, u>>
         /\ IF i < Len(pdus)
            THEN StartEvent(i + 1)
            ELSE /\ pc' = "processEDUs"
                 /\ UNCHANGED <<i, cur, isInboundTxn, newEvents, j, k>>

\* (a slip: the loop of getMissingEvents goes on after a failed event)
ReturnAndGoOn(err) ==
    IF j = 0 \/ (err # NoError /\ j = Len(newEvents))
    THEN TopReturn(err)
    ELSE IF j < Len(newEvents)
         THEN /\ j' = j + 1
              /\ cur' = newEvents[j + 1]
              /\ isInboundTxn' = FALSE
              /\ k' = 0
              /\ pc' = "processEvent"
              /\ UNCHANGED <<i, newEvents, u, results, txnErr, code>>
         ELSE TopReturn(NoError)

\* a processEvent invocation returned err: to the loop of getMissingEvents
\* (lines 566-574) when it was a recursive one, else to processTransaction
Return(err) ==
    IF j = 0 \/ err # NoError
    THEN TopReturn(err)
    ELSE IF j < Len(newEvents)
         THEN /\ j' = j + 1
              /\ cur' = newEvents[j + 1]
              /\ isInboundTxn' = FALSE
              /\ k' = 0
              /\ pc' = "processEvent"
              /\ UNCHANGED <<i, newEvents, u, results, txnErr, code>>
         ELSE TopReturn(NoError)

control == <<pc, i, cur, isInboundTxn, newEvents, j, k, u, results, txnErr, code>>

\* ---------------------------------------------------------------- Init
\* no run of the missing-state loop is under way
ReplayIdle ==
    /\ remote = <<>>
    /\ missing = {}
    /\ runs = <<>>

\* the Room-Server input API has no request
RoomserverIdle ==
    /\ request = [InputRoomEvents |-> <<>>, InputInviteEvents |-> <<>>]
    /\ inputPc = "idle"
    /\ inputIdx = 0
    /\ roomserverDB = {}
    /\ inputErr = "none"
    /\ roomID = ""
    /\ updates = <<>>
    /\ sent = <<>>
    /\ writeErr = "none"

\* the topology table is empty and untouched
TopologyIdle ==
    /\ topology = {}
    /\ lastInsert = [called |-> FALSE]
    /\ lastSelect = [called |-> FALSE]

\* no state lookup is under way
StateLookupIdle ==
    /\ stateIDs = [StateEventIDs |-> <<>>, AuthEventIDs |-> <<>>]
    /\ localEvents = {}
    /\ eventHeld = FALSE
    /\ lookupPc = "idle"
    /\ queryList = 0
    /\ haveEventMap = {}
    /\ haveEventIDs = {}
    /\ missingIDs = {}
    /\ respState = [AuthEvents |-> {}, StateEvents |-> {}, appended |-> 0]
    /\ lookupErr = "none"
    /\ lookupLog = {}

\* no state is being rolled forward
RollForwardIdle ==
    /\ resolvedStateEvents = <<>>
    /\ extremity = [id |-> "none", type |-> "", state_key |-> "nil"]
    /\ rolled = [done |-> FALSE, StateEvents |-> <<>>]

\* a transaction of at most maxPDUs PDUs and maxEDUs EDUs arrives
InitWith(maxPDUs, maxEDUs) ==
    /\ ReplayIdle /\ RoomserverIdle /\ TopologyIdle
    /\ StateLookupIdle /\ RollForwardIdle
    /\ PDUs \in SeqsUpTo(RawPDUs, maxPDUs)
    /\ EDUs \in SeqsUpTo(EDUKinds, maxEDUs)
    /\ held \in {{"r"}, {"r", "p"}}
    /\ known = held
    /\ cancelled = FALSE
    /\ cancelledAt = -1
    /\ pc = "validate"
    /\ i = 1
    /\ pdus = <<>>
    /\ cur = "none"
    /\ isInboundTxn = TRUE
    /\ newEvents = <<>>
    /\ j = 0
    /\ k = 0
    /\ u = 1
    /\ results = <<>>
    /\ txnErr = NoError
    /\ code = 0
    /\ calls = <<>>
    /\ faults = 0
    /\ verified = {}

Init == InitWith(MaxPDUs, MaxEDUs)

\* ------------------------------------------- processTransaction, part 1
\* lines 125-149, one PDU: extract the room id, query the room version,
\* parse the event, verify its signatures.
ValidatePDU ==
    /\ pc = "validate"
    /\ i <= Len(PDUs)
    /\ UNCHANGED <<inputs, known, context>>
    /\ LET pdu == PDUs[i] IN
       IF pdu = "notjson"
       THEN /\ Abort("unmarshalError")
            /\ UNCHANGED <<pdus, calls, faults, verified>>
       ELSE \E ver \in CtxOutcomes :
            IF ver # "ok"
            THEN /\ calls' = Append(calls, Call("QueryRoomVersionForRoom", pdu, "request", ver))
                 /\ Fault(ver)
                 /\ Abort("roomNotFoundError")
                 /\ UNCHANGED <<pdus, verified>>
            ELSE IF pdu = "badevent"
            THEN /\ calls' = Append(calls, Call("QueryRoomVersionForRoom", pdu, "request", ver))
                 /\ Abort("unmarshalError")
                 /\ UNCHANGED <<pdus, faults, verified>>
            ELSE \E sig \in CtxOutcomes :
                 /\ calls' = calls \o <<Call("QueryRoomVersionForRoom", pdu, "request", ver),
                                        Call("VerifyAllEventSignatures", pdu, "request", sig)>>
                 /\ Fault(sig)
                 /\ IF sig # "ok"
                    THEN /\ Abort("verifySigError")
                         /\ UNCHANGED <<pdus, verified>>
                    ELSE /\ pdus' = Append(pdus, pdu)
                         /\ verified' = verified \cup {pdu}
                         /\ i' = i + 1
                         /\ UNCHANGED <<pc, cur, isInboundTxn, newEvents, j, k, u,
                                        results, txnErr, code>>

\* (a slip: processing starts as soon as one PDU has passed)
SomeValidated == Len(pdus) >= 1 \/ i > Len(PDUs)

\* line 149: the validation loop is over
AllValidated == i > Len(PDUs)

\* lines 151-153: every PDU passed, enter the processing loop
BeginProcessing ==
    /\ pc = "validate"
    /\ AllValidated
    /\ UNCHANGED <<inputs, known, context, pdus, calls, faults, verified,
                   results, txnErr, code, u>>
    /\ IF Len(pdus) > 0
       THEN StartEvent(1)
       ELSE /\ pc' = "processEDUs"
            /\ UNCHANGED <<i, cur, isInboundTxn, newEvents, j, k>>

\* ---------------------------------------------------------- processEvent
PrevEventsExist(ev) == \A n \in DOMAIN PrevEventIDs(ev) : PrevEventIDs(ev)[n] \in known

\* checkAllowedByState against the local state after the prev events
\* (lines 296-305): gomatrixserverlib.Allowed returned no error
CheckAllowedByState(ev) == ev \notin DeniedByLocalState

\* (a slip: the result of the check is dropped)
StateCheckIgnored(ev) == TRUE

\* lines 277-279: processEvent goes on only when the check returned nil
StateCheckPasses(ev) == CheckAllowedByState(ev)

\* (a slip: every invocation backfills)
NeverTakeSnapshot(inbound) == FALSE

\* getMissingEvents, lines 486-490: a recursive invocation does not
\* backfill, the event becomes the backwards extremity
TakeSnapshot(inbound) == ~inbound

Goto(label) ==
    /\ pc' = label
    /\ UNCHANGED <<i, cur, isInboundTxn, newEvents, j, k, u, results, txnErr, code>>

\* enter lookupStateAfterEvent for the backwards extremity cur
GotoLookup(label, n) ==
    /\ pc' = label
    /\ k' = n
    /\ UNCHANGED <<i, cur, isInboundTxn, newEvents, j, u, results, txnErr, code>>

\* (a slip: the gap is looked at before the room)
RoomMissingUnlessGap(ev) == RoomID(ev) \notin LocalRooms /\ PrevEventsExist(ev)

\* line 257: !stateResp.RoomExists
RoomMissing(ev) == RoomID(ev) \notin LocalRooms

\* lines 240-279 (and 307-335, 485-490 when prev events are missing)
ProcessEvent ==
    /\ pc = "processEvent"
    /\ UNCHANGED <<inputs, known, context, pdus, verified>>
    /\ \E q \in CtxOutcomes :
       LET enter == Call("processEvent", cur, "request", "enter")
           answer == IF q = "ok" /\ RoomID(cur) \notin LocalRooms THEN "noroom" ELSE q
           query == Call("QueryStateAfterEvents", cur, "request", answer)
       IN
       /\ Fault(q)
       /\ IF q # "ok"
          THEN /\ calls' = calls \o <<enter, query>>
               /\ Return(ErrOf(q))
          ELSE IF RoomMissing(cur)
          THEN /\ calls' = calls \o <<enter, query>>
               /\ Return("roomNotFoundError")
          ELSE IF ~PrevEventsExist(cur)
          THEN /\ calls' = calls \o <<enter, query>>
               /\ IF TakeSnapshot(isInboundTxn)
                  THEN GotoLookup("lookupStateBeforeEvent", 1)
                  ELSE Goto("QueryLatestEventsAndState")
          ELSE /\ calls' = calls \o <<enter, query,
                      Call("Allowed", cur, "stateAfterPrev",
                           IF CheckAllowedByState(cur) THEN "ok" ELSE "denied")>>
               /\ IF StateCheckPasses(cur)
                  THEN Goto("SendEvents")
                  ELSE Return("NotAllowed")

\* lines 284-293
SendEvents ==
    /\ pc = "SendEvents"
    /\ UNCHANGED <<inputs, context, pdus, verified>>
    /\ \E q \in CtxOutcomes :
       /\ calls' = Append(calls, Call("SendEvents", cur, "request", q))
       /\ Fault(q)
       /\ IF q = "ok"
          THEN /\ known' = known \cup {cur}
               /\ Return(NoError)
          ELSE /\ UNCHANGED known
               /\ Return(ErrOf(q))

\* ------------------------------------------------------ getMissingEvents
\* lines 491-506
QueryLatestEventsAndState ==
    /\ pc = "QueryLatestEventsAndState"
    /\ UNCHANGED <<inputs, known, context, pdus, verified>>
    /\ \E q \in CtxOutcomes :
       /\ calls' = Append(calls, Call("QueryLatestEventsAndState", cur, "request", q))
       /\ Fault(q)
       /\ IF q = "ok"
          THEN Goto("LookupMissingEvents")
          ELSE GotoLookup("lookupStateBeforeEvent", 1)

TopologicalRank(ev) ==
    CASE ev = "r" -> 1 [] ev = "p" -> 2 [] ev = "a" -> 3
      [] ev = "e" -> 4 [] ev = "n" -> 5 [] OTHER -> 6

\* (a slip: descendants first)
RECURSIVE NewestFirst(_)
NewestFirst(S) ==
    IF S = {} THEN <<>>
    ELSE LET first == CHOOSE m \in S : \A o \in S : TopologicalRank(m) >= TopologicalRank(o)
         IN  <<first>> \o NewestFirst(S \ {first})

\* gomatrixserverlib.ReverseTopologicalOrdering by prev events (line 542):
\* ancestors first
RECURSIVE ReverseTopologicalOrdering(_)
ReverseTopologicalOrdering(S) ==
    IF S = {} THEN <<>>
    ELSE LET first == CHOOSE m \in S : \A o \in S : TopologicalRank(m) <= TopologicalRank(o)
         IN  <<first>> \o ReverseTopologicalOrdering(S \ {first})

MissingResponses == {S \in SUBSET MissingCandidates : Cardinality(S) <= MaxMissing}

\* what the remote answered: "ok" when the list holds a prev event of ev
ResponseKind(ev, returned) ==
    IF \E id \in returned : id \in Range(PrevEventIDs(ev)) THEN "ok" ELSE "noprev"

\* (a slip: the sanity check is dropped)
AnyResponseAccepted(ev, returned) == TRUE

\* lines 543-553
HasPrevEvent(ev, returned) ==
    \E n \in DOMAIN PrevEventIDs(ev) : PrevEventIDs(ev)[n] \in returned

\* QueryLatestEventsAndState, lines 498-506: the forward extremities of the
\* events the Room-Server holds, and the depth of the next event of the room
LatestEvents(S) ==
    {ev \in S : \A child \in S : ev \notin Range(PrevEventIDs(child))}

ResDepth(S) ==
    LET deepest == CHOOSE ev \in S : \A o \in S : Depth(o) <= Depth(ev)
    IN  Depth(deepest) + 1

\* (a slip: the minimum depth is clamped at zero)
MinDepthClamped(depth) == IF depth < 20 THEN 0 ELSE depth - 20

\* line 511: MinDepth: int(res.Depth) - 20
MinDepth(depth) == depth - 20

\* lines 508-516: the server asked and the fields of the request
MissingEvents(ev) ==
    <<Origin, RoomID(ev),
      [Limit |-> 20,
       MinDepth |-> MinDepth(ResDepth(known)),
       EarliestEvents |-> LatestEvents(known),
       LatestEvents |-> <<ev>>]>>

\* (a slip: the event that started the backfill is left out)
MissingEventsOnly(sorted, ev) == sorted

\* line 566: append(newEvents, e), the events the loop processes
BackfillQueue(sorted, ev) == Append(sorted, ev)

\* lines 508-574 up to the first recursive processEvent
LookupMissingEvents ==
    /\ pc = "LookupMissingEvents"
    /\ UNCHANGED <<inputs, known, context, pdus, verified>>
    /\ \E q \in CtxOutcomes :
       /\ Fault(q)
       /\ IF q # "ok"
          THEN /\ calls' = Append(calls,
                      [Call("LookupMissingEvents", cur, "request", q)
                         EXCEPT !.args = MissingEvents(cur)])
               /\ Return("missingPrevEventsError")
          ELSE \E S \in MissingResponses :
               /\ calls' = Append(calls,
                      [Call("LookupMissingEvents", cur, "request", ResponseKind(cur, S))
                         EXCEPT !.args = MissingEvents(cur)])
               /\ IF ~HasPrevEvent(cur, S)
                  THEN Return("missingPrevEventsError")
                  ELSE
                    /\ newEvents' = BackfillQueue(ReverseTopologicalOrdering(S), cur)
                    /\ j' = 1
                    /\ cur' = newEvents'[1]
                    /\ isInboundTxn' = FALSE
                    /\ k' = 0
                    /\ pc' = "processEvent"
                    /\ UNCHANGED <<i, u, results, txnErr, code>>

\* ------------------------------------------------- lookupStateAfterEvent
PrevOfCur == PrevEventIDs(cur)[k]

\* lookupStateBeforeEvent, lines 430-469: the local attempt
LookupStateBeforeEvent ==
    /\ pc = "lookupStateBeforeEvent"
    /\ UNCHANGED <<inputs, known, context, pdus, verified>>
    /\ \E q \in CtxOutcomes :
       /\ calls' = Append(calls, Call("QueryStateAfterEvents", PrevOfCur, "request", q))
       /\ Fault(q)
       /\ IF q = "ok" /\ PrevOfCur \in known
          THEN Goto("lookupEvent")
          ELSE Goto("LookupStateIDs")

\* lookupMissingStateViaStateIDs, lines 590-597
LookupStateIDs ==
    /\ pc = "LookupStateIDs"
    /\ UNCHANGED <<inputs, known, context, pdus, verified>>
    /\ \E q \in CtxOutcomes :
       /\ calls' = Append(calls, Call("LookupStateIDs", PrevOfCur, "request", q))
       /\ Fault(q)
       /\ IF q = "ok" THEN Goto("QueryEventsByID") ELSE Goto("LookupState")

\* lines 599-616; an error makes lookupStateBeforeEvent fall back (473-477)
QueryEventsByID ==
    /\ pc = "QueryEventsByID"
    /\ UNCHANGED <<inputs, known, context, pdus, verified>>
    /\ \E q \in CtxOutcomes :
       /\ calls' = Append(calls, Call("QueryEventsByID", PrevOfCur, "request", q))
       /\ Fault(q)
       /\ IF q = "ok" THEN Goto("fetchMissingState") ELSE Goto("LookupState")

\* lines 618-645 and createRespStateFromStateIDs, 647-693: fetch the state
\* and auth events the Room-Server does not hold ("held": there are none)
\* and assemble the RespState; any error falls back to /state (473-477);
\* a 200 without PDUs gives a nil event that line 641 dereferences
FetchMissingState ==
    /\ pc = "fetchMissingState"
    /\ UNCHANGED <<inputs, known, context, pdus, verified>>
    /\ \/ /\ UNCHANGED <<calls, faults>>
          /\ Goto("lookupEvent")
       \/ \E g \in CtxOutcomesOr({"wrongevent", "empty"}) :
          /\ calls' = Append(calls, Call("GetEvent", "state", "request", g))
          /\ Fault(g)
          /\ CASE g = "ok"    -> Goto("lookupEvent")
               [] g = "empty" -> Goto("panic")
               [] OTHER       -> Goto("LookupState")

\* lookupMissingStateViaState, lines 577-588
LookupState ==
    /\ pc = "LookupState"
    /\ UNCHANGED <<inputs, known, context, pdus, verified>>
    /\ \E q \in CtxOutcomesOr({"invalid"}) :
       /\ calls' = Append(calls, Call("LookupState", PrevOfCur, "request", q))
       /\ Fault(q)
       /\ IF q = "ok" THEN Goto("lookupEvent") ELSE Return(ErrOf(q))

\* lines 371-379 with lookupEvent, lines 695-714: a parse or signature
\* failure is returned; for a 200 whose transaction has no PDU lookupEvent
\* returns nil, err with err = nil (lines 697-700), the caller passes its
\* error test and dereferences the nil event at line 376, which panics
LookupEvent ==
    /\ pc = "lookupEvent"
    /\ UNCHANGED <<inputs, known, context, pdus>>
    /\ \E g \in CtxOutcomesOr({"unparseable", "badsig", "empty"}) :
       /\ calls' = Append(calls, Call("GetEvent", PrevOfCur, "request", g))
       /\ Fault(g)
       /\ CASE g = "ok" ->
                 /\ verified' = verified \cup {PrevOfCur}
                 /\ IF k < Len(PrevEventIDs(cur))
                    THEN GotoLookup("lookupStateBeforeEvent", k + 1)
                    ELSE Goto("resolve")
            [] g = "unparseable" ->
                 /\ UNCHANGED verified
                 /\ Return("unmarshalError")
            [] g = "badsig" ->
                 /\ UNCHANGED verified
                 /\ Return("verifySigError")
            [] g = "empty" ->
                 /\ UNCHANGED verified
                 /\ Goto("panic")
            [] OTHER ->
                 /\ UNCHANGED verified
                 /\ Return(ErrOf(g))

\* lines 381-426: resolve the state, check cur against it, validate
ResolveAndCheck ==
    /\ pc = "resolve"
    /\ UNCHANGED <<inputs, known, context, pdus, verified>>
    /\ \E r \in Answers({"resolveErr", "denied", "invalid"}) :
       /\ Fault(r)
       /\ CASE r = "resolveErr" ->
                 /\ UNCHANGED calls
                 /\ Return("other")
            [] r = "denied" ->
                 /\ calls' = Append(calls, Call("Allowed", cur, "resolved", "denied"))
                 /\ Return("NotAllowed")
            [] r = "invalid" ->
                 /\ calls' = Append(calls, Call("Allowed", cur, "resolved", "ok"))
                 /\ Return("other")
            [] OTHER ->
                 /\ calls' = Append(calls, Call("Allowed", cur, "resolved", "ok"))
                 /\ Goto("SendEventWithState")

\* (a slip: the handoff inherits the request context)
RequestContext == "request"

\* the context of the final handoff, line 346: context.Background()
HandoffContext == "background"

HandoffOutcomes(ctx) == IF ctx = "request" THEN CtxOutcomes ELSE Answers({"err"})

\* (a slip: the snapshot is handed off with the PDU of the transaction)
SnapshotWithInboundPDU == pdus[i]

\* line 346: e.Headered(roomVersion), e being the event of this
\* processEventWithMissingState invocation, the backwards extremity
SnapshotEvent == cur

\* processEventWithMissingState, lines 344-346
SendEventWithState ==
    /\ pc = "SendEventWithState"
    /\ UNCHANGED <<inputs, context, pdus, verified>>
    /\ \E q \in HandoffOutcomes(HandoffContext) :
       /\ calls' = Append(calls, Call("SendEventWithState", SnapshotEvent,
                                       HandoffContext, q))
       /\ Fault(q)
       /\ IF q = "ok"
          THEN /\ known' = known \cup {SnapshotEvent}
               /\ Return(NoError)
          ELSE /\ UNCHANGED known
               /\ Return(ErrOf(q))

\* ------------------------------------------------------------ processEDUs
\* lines 217-238, one EDU
\* (a slip: a failed SendTyping is returned to the caller)
EDUErrorReturned(res) == res # "ok"

\* lines 231-233: an error of SendTyping is logged, the loop goes on
EDUErrorEndsLoop(res) == FALSE

\* (a slip: room id and user id change places)
TypingArgsSwapped(payload) ==
    <<payload.RoomID, payload.UserID, payload.Typing, TypingTimeoutMS>>

\* line 231: the arguments of SendTyping after the context
TypingArgs(payload) ==
    <<payload.UserID, payload.RoomID, payload.Typing, TypingTimeoutMS>>

\* the EDU loop moves to the next EDU
NextEDU ==
    /\ u' = u + 1
    /\ UNCHANGED <<pc, i, cur, isInboundTxn, newEvents, j, k, results, txnErr, code>>

ProcessEDU ==
    /\ pc = "processEDUs"
    /\ u <= Len(EDUs)
    /\ UNCHANGED <<inputs, known, context, pdus, verified>>
    /\ LET typingPayload == UnmarshalTyping(EDUs[u].content) IN
       IF EDUs[u].type = "m.typing" /\ ~typingPayload.err
       THEN \E q \in CtxOutcomes :
            /\ calls' = Append(calls,
                   [Call("SendTyping", EDUs[u].type, "request", q)
                      EXCEPT !.pdu = 0,
                             !.args = TypingArgs(typingPayload)])
            /\ Fault(q)
            /\ IF EDUErrorEndsLoop(q)
               THEN Abort(ErrOf(q))
               ELSE NextEDU
       ELSE /\ UNCHANGED <<calls, faults>>
            /\ NextEDU

\* lines 189-190 and Send, lines 77-81
Respond ==
    /\ pc = "processEDUs"
    /\ u > Len(EDUs)
    /\ pc' = "done"
    /\ code' = HTTPStatus(NoError)
    /\ UNCHANGED <<inputs, known, context, pdus, calls, faults, verified,
                   i, cur, isInboundTxn, newEvents, j, k, u, results, txnErr>>

\* the request context is cancelled (client disconnect, timeout)
Cancel ==
    /\ pc \notin {"done", "panic"}
    /\ ~cancelled
    /\ cancelled' = TRUE
    /\ cancelledAt' = Len(calls)
    /\ UNCHANGED <<inputs, known, control, pdus, calls, faults, verified>>

Next ==
    \/ ValidatePDU
    \/ BeginProcessing
    \/ ProcessEvent
    \/ SendEvents
    \/ QueryLatestEventsAndState
    \/ LookupMissingEvents
    \/ LookupStateBeforeEvent
    \/ LookupStateIDs
    \/ QueryEventsByID
    \/ FetchMissingState
    \/ LookupState
    \/ LookupEvent
    \/ ResolveAndCheck
    \/ SendEventWithState
    \/ ProcessEDU
    \/ Respond
    \/ Cancel

Spec == Init /\ [][Next]_vars

\* the same transaction code over transactions of at most one PDU and
\* longer EDU lists
InitEDU == InitWith(MaxPDUsShort, MaxEDUsLong)

SpecEDU == InitEDU /\ [][Next]_vars

\* no transaction is running
TxnIdle ==
    /\ PDUs = <<>>
    /\ EDUs = <<>>
    /\ held = {}
    /\ known = {}
    /\ cancelled = FALSE
    /\ cancelledAt = -1
    /\ pc = "idle"
    /\ i = 1
    /\ pdus = <<>>
    /\ cur = "none"
    /\ isInboundTxn = TRUE
    /\ newEvents = <<>>
    /\ j = 0
    /\ k = 0
    /\ u = 1
    /\ results = <<>>
    /\ txnErr = NoError
    /\ code = 0
    /\ calls = <<>>
    /\ faults = 0
    /\ verified = {}

\* ============================================ the missing-state loop, twice
\* lookupMissingStateViaStateIDs, lines 618-645, run twice over the same
\* /state_ids answer and the same remote: the two runs of a replayed
\* transaction.  The loop of line 635 ranges over a Go map, whose
\* iteration order the language leaves unspecified, so each run visits the
\* missing ids in an order of its own.

\* the state and auth event ids the Room-Server does not hold
StateIDs == {"s1", "s2", "s3"}

\* what the remote can answer to GET /event/{id}: a transaction with the
\* event, a transaction with no PDU, a failure, an event with a bad signature
RemoteAnswers == {"event", "empty", "error", "badsig"}

Runs == {1, 2}

\* lookupEvent, lines 695-714: the event and the error it returns
LookupEventResult(answer) ==
    CASE answer = "error"  -> [h |-> "nil", err |-> "other"]
      [] answer = "empty"  -> [h |-> "nil", err |-> NoError]
      [] answer = "badsig" -> [h |-> "nil", err |-> "verifySigError"]
      [] OTHER             -> [h |-> "event", err |-> NoError]

InitReplay ==
    /\ TxnIdle /\ RoomserverIdle /\ TopologyIdle
    /\ StateLookupIdle /\ RollForwardIdle
    /\ missing \in SUBSET StateIDs
    /\ remote \in [missing -> RemoteAnswers]
    /\ runs = [r \in Runs |-> [todo |-> missing, have |-> {}, out |-> "running"]]

\* one pass of the loop of lines 635-642 in one of the runs: an error is
\* returned (and makes lookupStateBeforeEvent fall back to /state, lines
\* 473-477), a nil event without an error is dereferenced at line 641
LookupMissingStateEvent ==
    /\ \E r \in Runs :
       /\ runs[r].out = "running"
       /\ \E missingEventID \in runs[r].todo :
          LET got == LookupEventResult(remote[missingEventID]) IN
          runs' = [runs EXCEPT ![r] =
                     IF got.err # NoError
                     THEN [@ EXCEPT !.out = "error"]
                     ELSE IF got.h = "nil"
                     THEN [@ EXCEPT !.out = "panic"]
                     ELSE [@ EXCEPT !.todo = @ \ {missingEventID},
                                    !.have = @ \cup {missingEventID}]]
    /\ UNCHANGED <<remote, missing, txnVars, roomserverVars, topologyVars,
                   lookupVars, rollVars>>

\* lines 643-644: every missing event was fetched
CreateRespStateFromStateIDs ==
    /\ \E r \in Runs :
       /\ runs[r].out = "running"
       /\ runs[r].todo = {}
       /\ runs' = [runs EXCEPT ![r].out = "resp"]
    /\ UNCHANGED <<remote, missing, txnVars, roomserverVars, topologyVars,
                   lookupVars, rollVars>>

NextReplay ==
    \/ LookupMissingStateEvent
    \/ CreateRespStateFromStateIDs

SpecReplay == InitReplay /\ [][NextReplay]_vars

\* ====================================================== RoomserverInputAPI
\* the inputs of a request: state events sent as outliers and the event
InputEvents == {"s1", "s2", "ev"}

InviteEvents == {"inv"}

\* the updates WriteOutputEvents is given; json.Marshal fails on the last
OutputEvents == {"new_room_event", "new_invite_event", "unencodable"}

OutputRoomEventTopic == "roomserverOutput"

InitRoomserver ==
    /\ TxnIdle /\ ReplayIdle /\ TopologyIdle
    /\ StateLookupIdle /\ RollForwardIdle
    /\ request \in [InputRoomEvents : SeqsUpTo(InputEvents, MaxInputs),
                    InputInviteEvents : SeqsUpTo(InviteEvents, MaxInvites)]
    /\ inputPc = "roomEvents"
    /\ inputIdx = 1
    /\ roomserverDB = {}
    /\ inputErr = "none"
    /\ roomID \in {"!r:a", "!s:a"}
    /\ updates \in SeqsUpTo(OutputEvents, MaxUpdates)
    /\ sent = <<>>
    /\ writeErr = "none"

\* processRoomEvent / processInviteEvent: the input is stored, or the
\* call fails and stores nothing
ProcessOutcomes == {"nil", "err"}

ApplyInput(db, input) == db \cup {input}

\* InputRoomEvents, lines 120-124: one pass of the first loop; on an error
\* the function returns it and leaves r.DB as it is
ProcessRoomEvent ==
    /\ inputPc = "roomEvents"
    /\ inputIdx <= Len(request.InputRoomEvents)
    /\ \E err \in ProcessOutcomes :
       IF err # "nil"
       THEN /\ inputErr' = err
            /\ inputPc' = "returned"
            /\ UNCHANGED <<inputIdx, roomserverDB>>
       ELSE /\ roomserverDB' = ApplyInput(roomserverDB, request.InputRoomEvents[inputIdx])
            /\ inputIdx' = inputIdx + 1
            /\ UNCHANGED <<inputPc, inputErr>>
    /\ UNCHANGED <<request, roomID, updates, sent, writeErr,
                   txnVars, replayVars, topologyVars,
                   lookupVars, rollVars>>

\* line 125: the first loop is over
BeginInviteEvents ==
    /\ inputPc = "roomEvents"
    /\ inputIdx > Len(request.InputRoomEvents)
    /\ inputPc' = "inviteEvents"
    /\ inputIdx' = 1
    /\ UNCHANGED <<request, roomserverDB, inputErr, roomID, updates, sent, writeErr,
                   txnVars, replayVars, topologyVars,
                   lookupVars, rollVars>>

\* lines 125-129: one pass of the second loop
ProcessInviteEvent ==
    /\ inputPc = "inviteEvents"
    /\ inputIdx <= Len(request.InputInviteEvents)
    /\ \E err \in ProcessOutcomes :
       IF err # "nil"
       THEN /\ inputErr' = err
            /\ inputPc' = "returned"
            /\ UNCHANGED <<inputIdx, roomserverDB>>
       ELSE /\ roomserverDB' = ApplyInput(roomserverDB, request.InputInviteEvents[inputIdx])
            /\ inputIdx' = inputIdx + 1
            /\ UNCHANGED <<inputPc, inputErr>>
    /\ UNCHANGED <<request, roomID, updates, sent, writeErr,
                   txnVars, replayVars, topologyVars,
                   lookupVars, rollVars>>

\* line 130: return nil
InputRoomEventsReturn ==
    /\ inputPc = "inviteEvents"
    /\ inputIdx > Len(request.InputInviteEvents)
    /\ inputPc' = "returned"
    /\ inputErr' = "nil"
    /\ UNCHANGED <<request, inputIdx, roomserverDB, roomID, updates, sent, writeErr,
                   txnVars, replayVars, topologyVars,
                   lookupVars, rollVars>>

\* json.Marshal of an output event, lines 101-104
JSONMarshal(update) ==
    CASE update = "new_room_event" ->
            [err |-> FALSE, value |-> "{type:new_room_event}"]
      [] update = "new_invite_event" ->
            [err |-> FALSE, value |-> "{type:new_invite_event}"]
      [] OTHER ->
            [err |-> TRUE, value |-> ""]

\* (a slip: the message is keyed by its payload)
KeyedByValue(room, value) == value

\* line 107: Key: sarama.StringEncoder(roomID)
MessageKey(room, value) == room

\* lines 105-109
ProducerMessage(room, value) ==
    [Topic |-> OutputRoomEventTopic, Key |-> MessageKey(room, value), Value |-> value]

\* WriteOutputEvents, lines 97-112
WriteOutputEvents ==
    /\ writeErr = "none"
    /\ IF \E n \in DOMAIN updates : JSONMarshal(updates[n]).err
       THEN /\ writeErr' = "marshalError"
            /\ UNCHANGED sent
       ELSE LET messages == [n \in DOMAIN updates |->
                                ProducerMessage(roomID, JSONMarshal(updates[n]).value)]
            IN  /\ sent' = Append(sent, messages)
                /\ writeErr' \in {"nil", "producerError"}
    /\ UNCHANGED <<request, inputPc, inputIdx, roomserverDB, inputErr, roomID, updates,
                   txnVars, replayVars, topologyVars,
                   lookupVars, rollVars>>

NextRoomserver ==
    \/ ProcessRoomEvent
    \/ BeginInviteEvents
    \/ ProcessInviteEvent
    \/ InputRoomEventsReturn
    \/ WriteOutputEvents

SpecRoomserver == InitRoomserver /\ [][NextRoomserver]_vars

\* ============================================ the sync API topology table
\* syncapi_output_room_events_topology, lines 26-38: a row per event id
TopologyEventIDs == {"$1", "$2"}

TopologyRooms == {"!r:a", "!s:a"}

Positions == 1..MaxPosition

TopologyRows ==
    [event_id : TopologyEventIDs, topological_position : Positions,
     stream_position : Positions, room_id : TopologyRooms]

\* PRIMARY KEY (event_id) and
\* UNIQUE (topological_position, room_id, stream_position), lines 29 and 34
Conflicts(row, other) ==
    \/ row.event_id = other.event_id
    \/ /\ row.topological_position = other.topological_position
       /\ row.room_id = other.room_id
       /\ row.stream_position = other.stream_position

\* (a slip: INSERT OR REPLACE, the conflicting rows give way to the new one)
InsertOrReplace(rows, row) ==
    {other \in rows : ~Conflicts(row, other)} \cup {row}

\* insertEventInTopologySQL, lines 40-43: INSERT ... ON CONFLICT DO NOTHING
InsertEventInTopologySQL(rows, row) ==
    IF \E other \in rows : Conflicts(row, other) THEN rows ELSE rows \cup {row}

InitTopology ==
    /\ TxnIdle /\ ReplayIdle /\ RoomserverIdle
    /\ StateLookupIdle /\ RollForwardIdle
    /\ topology = {}
    /\ lastInsert = [called |-> FALSE]
    /\ lastSelect = [called |-> FALSE]

\* insertEventInTopology, lines 106-116: event.EventID(), event.Depth(),
\* event.RoomID() and pos are the values of the row
InsertEventInTopology ==
    /\ \E row \in TopologyRows :
       /\ topology' = InsertEventInTopologySQL(topology, row)
       /\ lastInsert' = [called |-> TRUE, row |-> row, err |-> NoError]
    /\ UNCHANGED <<lastSelect, txnVars, replayVars, roomserverVars, lookupVars,
                   rollVars>>

NextTopology == InsertEventInTopology

SpecTopology == InitTopology /\ [][NextTopology]_vars

\* the tables a sequence of inserts can leave: at most one row per event
\* id, no two rows with the same positions in the same room
Tables ==
    LET RowsFor(ids) == {f \in [ids -> TopologyRows] :
                            \A id \in ids : f[id].event_id = id}
    IN  {table \in UNION {{Range(f) : f \in RowsFor(ids)} :
                              ids \in SUBSET TopologyEventIDs} :
            \A a, b \in table : a # b => ~Conflicts(a, b)}

\* one selectEventIDsInRange call over any contents of the table
InitRange ==
    /\ TxnIdle /\ ReplayIdle /\ RoomserverIdle
    /\ StateLookupIdle /\ RollForwardIdle
    /\ topology \in Tables
    /\ lastInsert = [called |-> FALSE]
    /\ lastSelect = [called |-> FALSE]

\* the values of fromPos, toPos and toMicroPos, and of limit
RangePositions == 0..MaxPosition

Limits == 0..Cardinality(TopologyEventIDs)

\* the WHERE clause of lines 47-49 and 54-56, with $3 = $4 = toPos (line
\* 131): room_id = $1 AND (...) OR (...), and AND binds tighter than OR
Where(row, room, fromPos, toPos, toMicroPos) ==
    \/ /\ row.room_id = room
       /\ row.topological_position > fromPos /\ row.topological_position < toPos
    \/ row.topological_position = toPos /\ row.stream_position <= toMicroPos

\* ORDER BY topological_position, stream_position, ASC or DESC (lines 50
\* and 57): row a has to come before row b
SortsBefore(a, b, chronologicalOrder) ==
    LET less(x, y) ==
            \/ x.topological_position < y.topological_position
            \/ /\ x.topological_position = y.topological_position
               /\ x.stream_position < y.stream_position
    IN  IF chronologicalOrder THEN less(a, b) ELSE less(b, a)

\* the orders in which the statement can return the rows: rows with equal
\* positions come in any order
OrderBy(rows, chronologicalOrder) ==
    {seq \in [1..Cardinality(rows) -> rows] :
        /\ \A m, n \in DOMAIN seq : m # n => seq[m] # seq[n]
        /\ \A m, n \in DOMAIN seq :
              m < n => ~SortsBefore(seq[n], seq[m], chronologicalOrder)}

\* LIMIT $6
Limit(seq, limit) == SubSeq(seq, 1, IF limit < Len(seq) THEN limit ELSE Len(seq))

\* selectEventIDsInRange, lines 118-154: the statement for the order asked
\* for is run over the table and the event ids of its rows are returned
SelectEventIDsInRange ==
    /\ ~lastSelect.called
    /\ \E room \in TopologyRooms, fromPos, toPos, toMicroPos \in RangePositions,
          limit \in Limits, chronologicalOrder \in BOOLEAN :
       LET selected == {row \in topology :
                           Where(row, room, fromPos, toPos, toMicroPos)}
       IN  \E rows \in OrderBy(selected, chronologicalOrder) :
           lastSelect' =
               [called |-> TRUE, roomID |-> room, fromPos |-> fromPos,
                toPos |-> toPos, toMicroPos |-> toMicroPos, limit |-> limit,
                chronologicalOrder |-> chronologicalOrder,
                eventIDs |-> [n \in DOMAIN Limit(rows, limit) |-> rows[n].event_id],
                err |-> NoError]
    /\ UNCHANGED <<topology, lastInsert, txnVars, replayVars, roomserverVars,
                   lookupVars, rollVars>>

NextRange == SelectEventIDsInRange

SpecRange == InitRange /\ [][NextRange]_vars

\* ================================================= lookupStateBeforeEvent
\* One call of lookupStateBeforeEvent (lines 430-479) for a prev event of a
\* backwards extremity, with lookupMissingStateViaStateIDs,
\* createRespStateFromStateIDs, lookupMissingStateViaState and lookupEvent
\* in full.  The Room-Server and the remote answer every call as they like.

\* the state and auth events of the room at the prev event, and an event
\* the remote may send in place of the one asked for
StateEventCandidates == {"s1", "s2"}

AuthEventCandidates == {"a1", "a2"}

WrongEvent == "z"

\* Event.AuthEventIDs()
AuthEventIDs(ev) ==
    CASE ev = "s1" -> {"a1"}
      [] ev = "s2" -> {"a1", "a2"}
      [] ev = "a1" -> {"a2"}
      [] OTHER     -> {}

\* what GET /event/{id} can bring: the event asked for, another event, a
\* transaction without PDUs, a failed call, JSON that does not parse, a
\* signature that does not verify
GetEventAnswers == {"event", "other", "empty", "error", "unparseable", "badsig"}

\* line 358: lookupStateAfterEvent passes doAuthCheck = false
DoAuthCheck == FALSE

LogEntry(op, id, res) == [op |-> op, id |-> id, res |-> res]

\* a RespState: the events of its two lists, and the parity of the number
\* of events line 683 has appended to AuthEvents (the list grows with every
\* pass of the retry loop, also when the event is already in it)
RespState(auth, state) == [AuthEvents |-> auth, StateEvents |-> state, appended |-> 0]

NoRespState == RespState({}, {})

InitStateLookup ==
    /\ TxnIdle /\ ReplayIdle /\ RoomserverIdle /\ TopologyIdle /\ RollForwardIdle
    /\ stateIDs \in [StateEventIDs : SeqsUpTo(StateEventCandidates, MaxStateIDs),
                     AuthEventIDs : SeqsUpTo(AuthEventCandidates, MaxStateIDs)]
    /\ localEvents \in SUBSET (StateEventCandidates \cup AuthEventCandidates)
    /\ eventHeld \in BOOLEAN
    /\ lookupPc = "QueryStateAfterEvents"
    /\ queryList = 0
    /\ haveEventMap = {}
    /\ haveEventIDs = {}
    /\ missingIDs = {}
    /\ respState = NoRespState
    /\ lookupErr = "none"
    /\ lookupLog = {}

lookupInputs == <<stateIDs, localEvents, eventHeld, txnVars, replayVars,
                  roomserverVars, topologyVars, rollVars>>

\* lookupStateBeforeEvent returns
LookupReturns(resp, err) ==
    /\ lookupPc' = "returned"
    /\ respState' = resp
    /\ lookupErr' = err

\* lines 436-469: the local attempt; the Room-Server answers with state
\* events when it holds the event
QueryStateBeforeEventLocally ==
    /\ lookupPc = "QueryStateAfterEvents"
    /\ UNCHANGED <<lookupInputs, queryList, haveEventMap, missingIDs>>
    /\ \E q \in {"ok", "err"} :
       LET stateEvents == localEvents \cap StateEventCandidates
           asked == LogEntry("QueryStateAfterEvents", "", q)
       IN
       IF q = "ok" /\ eventHeld
       THEN /\ haveEventIDs' = stateEvents
            /\ lookupLog' = lookupLog \cup {asked} \cup
                   {LogEntry("QueryStateAfterEvents", ev, "returned") : ev \in stateEvents}
            /\ LookupReturns(
                   RespState({ae \in UNION {AuthEventIDs(ev) : ev \in stateEvents} :
                                 ae \in stateEvents},
                             stateEvents), NoError)
       ELSE /\ lookupLog' = lookupLog \cup {asked}
            /\ lookupPc' = "LookupStateIDs"
            /\ UNCHANGED <<haveEventIDs, respState, lookupErr>>

\* (a slip: only a failed /state_ids call leads to /state)
FallbackAfterStateIDsOnly(stage) == stage = "LookupStateIDs"

\* lines 472-477: whatever made lookupMissingStateViaStateIDs return an
\* error, lookupStateBeforeEvent goes on to /state
FallbackToState(stage) == TRUE

\* lookupMissingStateViaStateIDs returned an error at the given stage,
\* with have as its second result
ViaStateIDsFailed(stage, have) ==
    /\ haveEventIDs' = have
    /\ IF FallbackToState(stage)
       THEN /\ lookupPc' = "LookupState"
            /\ UNCHANGED <<respState, lookupErr>>
       ELSE LookupReturns(NoRespState, "other")

\* lines 590-597
LookupMissingStateViaStateIDs ==
    /\ lookupPc = "LookupStateIDs"
    /\ UNCHANGED <<lookupInputs, haveEventMap, missingIDs>>
    /\ \E q \in {"ok", "err"} :
       /\ lookupLog' = lookupLog \cup {LogEntry("LookupStateIDs", "", q)}
       /\ IF q = "ok"
          THEN /\ lookupPc' = "QueryEventsByID"
               /\ queryList' = 1
               /\ UNCHANGED <<haveEventIDs, respState, lookupErr>>
          ELSE /\ ViaStateIDsFailed("LookupStateIDs", {})
               /\ UNCHANGED queryList

\* (a slip: every id that was asked for is marked as held)
AllQueriedIDs(queried, returned) == queried

\* lines 612-615: the ids of queryRes.Events
HeldIDs(queried, returned) == returned

\* lines 603-625: one pass of the loop over the two id lists, and after
\* the second one the ids that are missing
QueryEventsByIDPass ==
    /\ lookupPc = "QueryEventsByID"
    /\ UNCHANGED lookupInputs
    /\ \E q \in {"ok", "err"} :
       LET eventList == IF queryList = 1 THEN stateIDs.StateEventIDs
                                         ELSE stateIDs.AuthEventIDs
           returned == Range(eventList) \cap localEvents
           wantIDs == Range(stateIDs.StateEventIDs) \cup Range(stateIDs.AuthEventIDs)
       IN
       IF q # "ok"
       THEN /\ lookupLog' = lookupLog \cup {LogEntry("QueryEventsByID", "", q)}
            /\ ViaStateIDsFailed("QueryEventsByID", {})
            /\ UNCHANGED <<queryList, haveEventMap, missingIDs>>
       ELSE /\ lookupLog' = lookupLog \cup {LogEntry("QueryEventsByID", "", q)} \cup
                   {LogEntry("QueryEventsByID", ev, "returned") : ev \in returned}
            /\ haveEventMap' = haveEventMap \cup returned
            /\ haveEventIDs' = haveEventIDs \cup HeldIDs(Range(eventList), returned)
            /\ UNCHANGED <<respState, lookupErr>>
            /\ IF queryList = 1
               THEN /\ queryList' = 2
                    /\ UNCHANGED <<lookupPc, missingIDs>>
               ELSE /\ missingIDs' = wantIDs \ haveEventMap'
                    /\ lookupPc' = "fetch"
                    /\ UNCHANGED queryList

\* lookupEvent, lines 695-714: the id of the event returned ("nil" for
\* none) and the error, for an answer of the remote to GET /event/{id}
LookupEventReturns(id, answer) ==
    CASE answer = "event"       -> [h |-> id, err |-> NoError]
      [] answer = "other"       -> [h |-> WrongEvent, err |-> NoError]
      [] answer = "empty"       -> [h |-> "nil", err |-> NoError]
      [] answer = "unparseable" -> [h |-> "nil", err |-> "unmarshalError"]
      [] answer = "badsig"      -> [h |-> "nil", err |-> "verifySigError"]
      [] OTHER                  -> [h |-> "nil", err |-> "other"]

\* lines 635-642: one pass of the loop over the map missing
FetchMissingEvent ==
    /\ lookupPc = "fetch"
    /\ UNCHANGED <<lookupInputs, queryList>>
    /\ \E missingEventID \in missingIDs, answer \in GetEventAnswers :
       LET got == LookupEventReturns(missingEventID, answer) IN
       /\ lookupLog' = lookupLog \cup {LogEntry("GetEvent", missingEventID, answer)}
       /\ IF got.err # NoError
          THEN /\ ViaStateIDsFailed("GetEvent", {})
               /\ UNCHANGED <<haveEventMap, missingIDs>>
          ELSE IF got.h = "nil"
          THEN /\ lookupPc' = "panic"
               /\ UNCHANGED <<haveEventMap, haveEventIDs, missingIDs, respState, lookupErr>>
          ELSE /\ haveEventMap' = haveEventMap \cup {got.h}
               /\ missingIDs' = missingIDs \ {missingEventID}
               /\ UNCHANGED <<lookupPc, haveEventIDs, respState, lookupErr>>

\* lines 643-670: the RespState is filled from haveEventMap; an error
\* comes back together with haveEventIDs (line 644)
CreateRespState ==
    /\ lookupPc = "fetch"
    /\ missingIDs = {}
    /\ UNCHANGED <<lookupInputs, queryList, haveEventMap, missingIDs, lookupLog>>
    /\ LET wantState == Range(stateIDs.StateEventIDs)
           wantAuth == Range(stateIDs.AuthEventIDs)
       IN
       IF ~(wantState \cup wantAuth \subseteq haveEventMap)
       THEN ViaStateIDsFailed("createRespState", haveEventIDs)
       ELSE /\ respState' = RespState(wantAuth, wantState)
            /\ lookupPc' = "retryCheck"
            /\ UNCHANGED <<haveEventIDs, lookupErr>>

\* RespState.Check, line 673: the auth events that events of the RespState
\* name and AuthEvents does not hold (MissingAuthEventError names one)
MissingAuthEvents(resp) ==
    {id \in UNION {AuthEventIDs(ev) : ev \in resp.StateEvents \cup resp.AuthEvents} :
        id \notin resp.AuthEvents}

\* lines 672-692: one pass of the retryCheck loop.  AuthEvents is kept as
\* the set of the events in the list, Check looking only at which events
\* are there; lookupEvent does not compare the id of the event it got with
\* the id it asked for, and line 683 appends whatever came.
RetryCheck ==
    /\ lookupPc = "retryCheck"
    /\ UNCHANGED <<lookupInputs, queryList, haveEventMap, missingIDs>>
    /\ IF MissingAuthEvents(respState) = {}
       THEN \E check \in {"nil", "invalid"} :
            /\ UNCHANGED lookupLog
            /\ IF check # "nil" /\ DoAuthCheck
               THEN ViaStateIDsFailed("Check", haveEventIDs)
               ELSE /\ LookupReturns(respState, NoError)
                    /\ UNCHANGED haveEventIDs
       ELSE \E AuthEventID \in MissingAuthEvents(respState), answer \in GetEventAnswers :
            LET newEv == LookupEventReturns(AuthEventID, answer) IN
            /\ lookupLog' = lookupLog \cup {LogEntry("GetEvent", AuthEventID, answer)}
            /\ IF newEv.err # NoError
               THEN ViaStateIDsFailed("retryCheck", haveEventIDs)
               ELSE IF newEv.h = "nil"
               THEN /\ lookupPc' = "panic"
                    /\ UNCHANGED <<haveEventIDs, respState, lookupErr>>
               ELSE /\ respState' = [respState EXCEPT !.AuthEvents = @ \cup {newEv.h},
                                                      !.appended = 1 - @]
                    /\ UNCHANGED <<lookupPc, haveEventIDs, lookupErr>>

\* lookupMissingStateViaState, lines 577-588, called at line 476: the
\* remote's /state answer, checked; haveEventIDs stays as it is
LookupMissingStateViaState ==
    /\ lookupPc = "LookupState"
    /\ UNCHANGED <<lookupInputs, queryList, haveEventMap, missingIDs, haveEventIDs>>
    /\ \E q \in {"ok", "err", "invalid"} :
       /\ lookupLog' = lookupLog \cup {LogEntry("LookupState", "", q)}
       /\ IF q = "ok"
          THEN LookupReturns(RespState(AuthEventCandidates, StateEventCandidates),
                             NoError)
          ELSE LookupReturns(NoRespState, "other")

NextStateLookup ==
    \/ QueryStateBeforeEventLocally
    \/ LookupMissingStateViaStateIDs
    \/ QueryEventsByIDPass
    \/ FetchMissingEvent
    \/ CreateRespState
    \/ RetryCheck
    \/ LookupMissingStateViaState

SpecStateLookup == InitStateLookup /\ [][NextStateLookup]_vars

\* the lookup is never left waiting: the function runs on until it returns
SpecStateLookupFair == SpecStateLookup /\ WF_vars(NextStateLookup)

\* ===================================== the roll-forward of the snapshot
\* lookupStateAfterEvent, lines 401-409 and 417-420: the resolved state is
\* rolled forward by the backwards extremity e and becomes the StateEvents
\* of the RespState.  state_key "nil" stands for an event without a state
\* key; the empty string is a state key like any other.
Event(id, type, state_key) == [id |-> id, type |-> type, state_key |-> state_key]

\* events ResolveConflicts may have resolved the state before e to
ResolvedCandidates ==
    {Event("m1", "m.room.member", "@u:b"), Event("m2", "m.room.member", "@v:b"),
     Event("t1", "m.room.topic", ""), Event("pl", "m.room.power_levels", "")}

\* the backwards extremity: a state event or a message
ExtremityCandidates ==
    {Event("em", "m.room.member", "@u:b"), Event("et", "m.room.topic", ""),
     Event("ej", "m.room.join_rules", ""), Event("eg", "m.room.message", "nil")}

\* a resolved state has one event for a pair of type and state key
OneEventPerKey(seq) ==
    \A a, b \in DOMAIN seq :
        (seq[a].type = seq[b].type /\ seq[a].state_key = seq[b].state_key) => a = b

InitRollForward ==
    /\ TxnIdle /\ ReplayIdle /\ RoomserverIdle /\ TopologyIdle /\ StateLookupIdle
    /\ resolvedStateEvents \in
          {seq \in SeqsUpTo(ResolvedCandidates, MaxResolved) : OneEventPerKey(seq)}
    /\ extremity \in ExtremityCandidates
    /\ rolled = [done |-> FALSE, StateEvents |-> <<>>]

\* lines 403-408: the entries with the type and state key of e
MatchingEntries(resolved, e) ==
    {n \in DOMAIN resolved :
        resolved[n].type = e.type /\ resolved[n].state_key = e.state_key}

\* lines 402-409: when e is a state event the first entry of its type and
\* state key is replaced by e; there is no branch for the case that the
\* loop finds none
RollForward(resolved, e) ==
    IF e.state_key = "nil" \/ MatchingEntries(resolved, e) = {}
    THEN resolved
    ELSE LET first == CHOOSE n \in MatchingEntries(resolved, e) :
                          \A m \in MatchingEntries(resolved, e) : n <= m
         IN  [resolved EXCEPT ![first] = e]

\* lines 401-420
RollStateForward ==
    /\ ~rolled.done
    /\ rolled' = [done |-> TRUE,
                  StateEvents |-> RollForward(resolvedStateEvents, extremity)]
    /\ UNCHANGED <<resolvedStateEvents, extremity, txnVars, replayVars,
                   roomserverVars, topologyVars, lookupVars>>

NextRollForward == RollStateForward

SpecRollForward == InitRollForward /\ [][NextRollForward]_vars

\* ================================================================ claims
HandoffOps == {"SendEvents", "SendEventWithState"}
FederationOps == {"LookupMissingEvents", "LookupStateIDs", "LookupState", "GetEvent"}
ValidationOps == {"QueryRoomVersionForRoom", "VerifyAllEventSignatures"}

Handoffs == {n \in DOMAIN calls : calls[n].op \in HandoffOps}

\* the event of call n was handed to the Output Producer
HandedOff(id) == \E n \in Handoffs : calls[n].ev = id

\* the signatures of ev were verified by a call before call n
VerifiedBefore(ev, n) ==
    \E m \in 1..(n - 1) :
        /\ calls[m].ev = ev
        /\ calls[m].res = "ok"
        /\ calls[m].op \in {"VerifyAllEventSignatures", "GetEvent"}

\* the processing loop was entered
ProcessingBegan == \E n \in DOMAIN calls : calls[n].op \notin ValidationOps

\* C1 (Signature gate): every event passed to SendEvents or to
\* SendEventWithState had its signatures verified earlier in the run, the
\* events returned by LookupMissingEvents included.
C1_SignatureGate ==
    \A n \in Handoffs : calls[n].ev \in verified /\ VerifiedBefore(calls[n].ev, n)

\* the Allowed check that belongs to handoff n: same event, same
\* processEvent invocation, against the state of the path taken
AuthCheckedFor(n) ==
    \E m \in 1..(n - 1) :
        /\ calls[m].op = "Allowed"
        /\ calls[m].ev = calls[n].ev
        /\ calls[m].res = "ok"
        /\ calls[m].ctx = (IF calls[n].op = "SendEvents" THEN "stateAfterPrev" ELSE "resolved")
        /\ \A l \in (m + 1)..(n - 1) : calls[l].op # "processEvent"

\* C2 (Auth gate): every event handed to the Output Producer was checked
\* with Allowed, in the same Event Processor invocation and before the
\* handoff, against the local state after its prev events (SendEvents) or
\* the resolved state (SendEventWithState), and the check succeeded.
C2_AuthGate == \A n \in Handoffs : AuthCheckedFor(n)

C2_Witness ==
    /\ \E n \in Handoffs : calls[n].op = "SendEvents" /\ calls[n].res = "ok"
    /\ \E n \in Handoffs : calls[n].op = "SendEventWithState" /\ calls[n].res = "ok"
    /\ \E n \in DOMAIN calls : calls[n].op = "Allowed" /\ calls[n].res = "denied"

\* C3 (Result coverage): when processTransaction returns without error the
\* keys of the response map are exactly the event ids of the input PDUs.
C3_ResultCoverage ==
    (pc = "done" /\ txnErr = NoError) =>
        /\ code = 200
        /\ DOMAIN results = Range(PDUs)
        /\ \A n \in DOMAIN PDUs : PDUs[n] \in DOMAIN results

\* a 200 for two PDUs, one of them skipped because a backfilled event that
\* is not a PDU of the transaction failed
C3_Witness ==
    /\ pc = "done" /\ code = 200
    /\ Len(PDUs) = 2
    /\ \E id \in DOMAIN results : results[id] # ""
    /\ \E n \in DOMAIN calls :
          /\ calls[n].op = "processEvent"
          /\ ~calls[n].inbound
          /\ calls[n].ev \notin Range(PDUs)
          /\ n + 2 \in DOMAIN calls
          /\ calls[n + 2].op = "Allowed" /\ calls[n + 2].res = "denied"

\* C4 (Skip semantics): a skippable error of a top-level PDU does not abort
\* the transaction, the PDU gets a result with the error string, the PDU
\* itself is not handed to the Output Producer, the later PDUs are still
\* processed and the response is 200.
C4_SkipSemantics ==
    /\ (pc = "done" /\ ProcessingBegan) => ~Skippable(txnErr)
    /\ \A id \in DOMAIN results : results[id] # "" =>
          /\ Skippable(results[id])
          /\ ~HandedOff(id)
    /\ (pc = "done" /\ txnErr = NoError) => code = 200

\* C5: an error of the Event Processor that is not RoomNotFound, NotAllowed
\* or MissingPrevEvents aborts the transaction with a 500, never a 400 or
\* a 200.
C5_OtherErrorsGive500 ==
    (pc = "done" /\ ProcessingBegan /\ txnErr # NoError) => code = 500

\* C6 (Up-front gate): when a PDU fails room-id extraction, room-version
\* lookup, parsing or signature verification the response is a 400 and
\* nothing but validation calls has been made; the Event Processor runs
\* only after every PDU of the transaction has passed.
C6_UpFrontGate ==
    /\ (pc = "done" /\ Len(pdus) < Len(PDUs)) =>
          /\ code = 400
          /\ \A n \in DOMAIN calls : calls[n].op \in ValidationOps
          /\ results = <<>>
    /\ ProcessingBegan =>
          /\ pdus = PDUs
          /\ \A n \in DOMAIN PDUs : PDUs[n] \in verified

\* the second PDU fails after the first one passed
C6_Witness ==
    /\ pc = "done" /\ code = 400
    /\ Len(PDUs) = 2 /\ Len(pdus) = 1

LookupMissingCalls == {n \in DOMAIN calls : calls[n].op = "LookupMissingEvents"}

\* C7 (Bounded backfill): LookupMissingEvents is never called by an
\* invocation with isInboundTxn = false; it is called at most once per
\* top-level PDU, so at most Len(PDUs) times, and events fed back by the
\* backfill never start a backfill of their own (recursion depth one).
C7_BoundedBackfill ==
    /\ \A n \in LookupMissingCalls : calls[n].inbound
    /\ \A n, m \in LookupMissingCalls : calls[n].pdu = calls[m].pdu => n = m
    /\ Cardinality(LookupMissingCalls) <= Len(PDUs)
    /\ \A n \in DOMAIN calls :
          (calls[n].op = "processEvent" /\ ~calls[n].inbound) =>
              \E m \in LookupMissingCalls :
                  m < n /\ calls[m].pdu = calls[n].pdu /\ calls[m].res = "ok"

\* a backfilled event had a gap of its own and got a state snapshot
C7_Witness ==
    \E n \in Handoffs :
        /\ calls[n].op = "SendEventWithState"
        /\ ~calls[n].inbound
        /\ \E m \in LookupMissingCalls : m < n /\ calls[m].pdu = calls[n].pdu

Uncooperative(n) ==
    /\ calls[n].op = "LookupMissingEvents"
    /\ calls[n].res # "ok"

\* C8 (Uncooperative sender): when LookupMissingEvents fails, or returns
\* none of the prev events of e, the Event Processor invocation for e ends
\* there with MissingPrevEvents as the result of e: no returned event is
\* processed and no LookupStateIDs, LookupState, SendEvents or
\* SendEventWithState call is made by it.
C8_UncooperativeSender ==
    /\ [](\A n \in DOMAIN calls : Uncooperative(n) =>
            /\ \A m \in DOMAIN calls : m > n => calls[m].pdu # calls[n].pdu
            /\ \A m \in 1..(n - 1) : calls[m].pdu = calls[n].pdu =>
                  /\ calls[m].inbound
                  /\ calls[m].op \in ValidationOps \cup
                        {"processEvent", "QueryStateAfterEvents", "QueryLatestEventsAndState"})
    /\ [][(/\ Len(calls') > Len(calls)
            /\ calls'[Len(calls')].op = "LookupMissingEvents"
            /\ calls'[Len(calls')].res # "ok") =>
               /\ pdus[i] \in DOMAIN results'
               /\ results'[pdus[i]] = "missingPrevEventsError"
               /\ code' = 0]_vars

\* the sender failed one backfill and answered another without any of the
\* prev events
C8_Witness ==
    /\ \E n \in DOMAIN calls : Uncooperative(n) /\ calls[n].res = "noprev"
    /\ \E n \in DOMAIN calls : Uncooperative(n) /\ calls[n].res = "err"

CancellableOps == {"QueryRoomVersionForRoom", "QueryStateAfterEvents",
                   "LookupMissingEvents", "LookupStateIDs", "LookupState",
                   "GetEvent", "SendEvents"}

\* C10 (Cancellation): when the request context is cancelled while a
\* context-honouring call is in flight, the call aborts and the
\* transaction returns a 500, never a 200 or a 400.
C10_CancellationGives500 ==
    (pc = "done" /\ \E n \in DOMAIN calls :
                       calls[n].res = "cancelled" /\ calls[n].op \in CancellableOps)
        => code = 500

\* C11 (Determinism / replay): two runs over the same transaction, every
\* collaborator answering the same call in the same way, end in the same
\* way; here for the part of a run that fetches the missing state events:
\* once both runs have left the loop they left it with the same outcome (a
\* RespState, an error that makes the caller fall back to /state, or a
\* panic that ends the request without a response).
C11_Replay ==
    (\A r \in Runs : runs[r].out # "running") => runs[1].out = runs[2].out

\* calls made by the processing loop of lines 152-186
InProcessing(n) == calls[n].op \notin ValidationOps \cup {"SendTyping"}

\* the part of the run call n belongs to: validation, the invocation for
\* the p-th PDU, the EDU loop
PartOf(n) ==
    IF calls[n].op \in ValidationOps THEN 0
    ELSE IF calls[n].op = "SendTyping" THEN Len(PDUs) + 1
    ELSE calls[n].pdu

\* call n is the last one of its part
LastOfPart(n) == n = Len(calls) \/ PartOf(n + 1) # PartOf(n)

\* the processEvent invocation for the p-th PDU has returned
Completed(p) == p < i \/ pc \in {"processEDUs", "done"}

\* call n ends the invocation for the p-th PDU with a successful handoff
EndsInHandoff(n, p) ==
    /\ PartOf(n) = p
    /\ LastOfPart(n)
    /\ calls[n].op \in HandoffOps
    /\ calls[n].res = "ok"

\* C12 (Ordering): the top-level PDUs are processed one after the other in
\* the order of the transaction: every call made for a PDU, the handoffs
\* of the events backfilled for it included, precedes every call made for
\* a later PDU; the invocation for the p-th PDU processes PDUs[p], and when
\* it accepts the PDU its last call is the successful handoff of PDUs[p].
C12_Ordering ==
    /\ \A n \in 1..(Len(calls) - 1) : PartOf(n) <= PartOf(n + 1)
    /\ \A n \in DOMAIN calls :
          /\ (calls[n].op = "processEvent" /\ calls[n].inbound) =>
                calls[n].ev = PDUs[calls[n].pdu]
          /\ (InProcessing(n) /\ Completed(calls[n].pdu)
                /\ EndsInHandoff(n, calls[n].pdu)) =>
                calls[n].ev = PDUs[calls[n].pdu]
    /\ (pc = "done" /\ txnErr = NoError) =>
          \A p \in DOMAIN PDUs :
              ((\A q \in DOMAIN PDUs : PDUs[q] = PDUs[p] => q = p) /\ results[PDUs[p]] = "")
                  => \E n \in DOMAIN calls : EndsInHandoff(n, p)

\* two different PDUs were accepted, the first after a backfill
C12_Witness ==
    /\ pc = "done" /\ code = 200
    /\ Len(PDUs) = 2 /\ PDUs[1] # PDUs[2]
    /\ results[PDUs[1]] = "" /\ results[PDUs[2]] = ""
    /\ \E n \in Handoffs :
          calls[n].pdu = 1 /\ calls[n].ev # PDUs[1] /\ calls[n].res = "ok"
    /\ \E n \in Handoffs : calls[n].pdu = 2 /\ calls[n].ev = PDUs[2]

\* the step in which the top-level processEvent for pdus[i] returns
TopLevelReturns ==
    /\ pc \notin {"validate", "processEDUs", "done"}
    /\ i' = i + 1 \/ pc' = "processEDUs"

\* C13 (Handoff happens-before result): an empty result is recorded for an
\* event id only when the invocation for that PDU has just passed the
\* event to SendEvents or SendEventWithState and the call returned without
\* error; so every id with an empty result was handed off in this run.
C13_HandoffBeforeResult ==
    /\ [](\A id \in DOMAIN results : results[id] = "" =>
            \E n \in Handoffs : calls[n].ev = id /\ calls[n].res = "ok")
    /\ [][(TopLevelReturns /\ results'[pdus[i]] = "") =>
            /\ Len(calls') = Len(calls) + 1
            /\ calls'[Len(calls')].op \in HandoffOps
            /\ calls'[Len(calls')].ev = pdus[i]
            /\ calls'[Len(calls')].pdu = i
            /\ calls'[Len(calls')].res = "ok"]_vars

\* one PDU was accepted through a state snapshot, another after a backfill
C13_Witness ==
    /\ pc = "done"
    /\ \E n \in Handoffs :
          /\ calls[n].op = "SendEventWithState" /\ calls[n].inbound
          /\ calls[n].ev \in DOMAIN results /\ results[calls[n].ev] = ""
    /\ \E n \in Handoffs :
          /\ calls[n].op = "SendEvents" /\ ~calls[n].inbound
          /\ calls[n].ev \in DOMAIN results /\ results[calls[n].ev] = ""

\* what the Room-Server held before call n
KnownAt(n) ==
    held \cup {calls[m].ev : m \in {h \in Handoffs : h < n /\ calls[h].res = "ok"}}

\* the running (or, after the last PDU, the finished) invocation filled a
\* gap: its /get_missing_events call, the events the remote returned, and
\* the event that had the gap
Backfilling == j > 0 /\ pc # "validate"

GapCall == CHOOSE n \in LookupMissingCalls : calls[n].pdu = i

Returned == {newEvents[n] : n \in 1..(Len(newEvents) - 1)}

ReturnedInOrder == SubSeq(newEvents, 1, Len(newEvents) - 1)

GapEvent == calls[GapCall].ev

RECURSIVE Ancestors(_)
Ancestors(ev) ==
    Range(PrevEventIDs(ev)) \cup UNION {Ancestors(q) : q \in Range(PrevEventIDs(ev))}

AncestorsFirst(seq) ==
    \A a, b \in DOMAIN seq : a < b => seq[b] \notin Ancestors(seq[a])

IsHandoff(c) == c.op \in HandoffOps

\* the handoffs after call n, in order
HandoffsAfter(n) == SelectSeq(SubSeq(calls, n + 1, Len(calls)), IsHandoff)

\* no call after call n failed, was cancelled or turned the event down,
\* and the transaction was not aborted
NoFailureAfter(n) ==
    /\ txnErr = NoError
    /\ \A m \in (n + 1)..Len(calls) : InProcessing(m) => calls[m].res \in {"enter", "ok"}

\* the premise of S4: the returned events hold the prev events of e the
\* Room-Server lacked, and their own prev events were all held
GapFillable ==
    /\ Backfilling
    /\ Range(PrevEventIDs(GapEvent)) \subseteq KnownAt(GapCall) \cup Returned
    /\ \A q \in Returned : Range(PrevEventIDs(q)) \subseteq KnownAt(GapCall)

\* the invocation that filled the gap has returned
BackfillOver == Backfilling /\ pc \in {"processEDUs", "done"}

\* what S4 expects of the invocation once it is over
GapFilled ==
    LET sentAfter == HandoffsAfter(GapCall) IN
    /\ Len(sentAfter) = Len(newEvents)
    /\ \A n \in DOMAIN sentAfter :
          /\ sentAfter[n].ev = newEvents[n]
          /\ sentAfter[n].op = "SendEvents"
          /\ sentAfter[n].res = "ok"
    /\ AncestorsFirst(ReturnedInOrder)
    /\ newEvents[Len(newEvents)] = GapEvent
    /\ GapEvent \in DOMAIN results /\ results[GapEvent] = ""
    /\ DOMAIN results \subseteq Range(PDUs)

\* C14 as claimed (Gap fillable, S4): when e has unknown prev events and
\* LookupMissingEvents returns events that include them and whose own prev
\* events are all known, every returned event and then e is handed off via
\* SendEvents, ancestors first, SendEventWithState is not called, and e
\* has an empty result.
C14_GapFillable == (BackfillOver /\ GapFillable) => GapFilled

\* C14 as amended: the same, provided no call made for the returned events
\* and for e fails or is cancelled and each of them passes the room and
\* auth checks; then, while the invocation runs, the events handed off so
\* far are the first of the sorted list, each via SendEvents, and no state
\* lookup or SendEventWithState call is made; once it is over all of them
\* and e were handed off and e has an empty result.
C14_GapFillableWhenAllPass ==
    (GapFillable /\ NoFailureAfter(GapCall)) =>
        LET sentAfter == HandoffsAfter(GapCall) IN
        /\ \A m \in (GapCall + 1)..Len(calls) :
              InProcessing(m) =>
                  calls[m].op \in {"processEvent", "QueryStateAfterEvents",
                                   "Allowed", "SendEvents"}
        /\ Len(sentAfter) <= Len(newEvents)
        /\ \A n \in DOMAIN sentAfter : sentAfter[n].ev = newEvents[n]
        /\ AncestorsFirst(ReturnedInOrder)
        /\ BackfillOver => GapFilled

\* two returned events and then e were handed off
C14_Witness ==
    /\ pc = "done" /\ code = 200
    /\ GapFillable /\ NoFailureAfter(GapCall)
    /\ Len(newEvents) = 3
    /\ newEvents[1] # newEvents[2]
    /\ Len(HandoffsAfter(GapCall)) = 3

\* the premise of S5: the remote returned one event, the prev event of e
\* the Room-Server lacked, and a prev event of that one is not held either
SnapshotNeeded ==
    /\ Backfilling
    /\ Len(newEvents) = 2
    /\ newEvents[1] \in Range(PrevEventIDs(GapEvent))
    /\ newEvents[1] \notin KnownAt(GapCall)
    /\ Range(PrevEventIDs(GapEvent)) \subseteq KnownAt(GapCall) \cup {newEvents[1]}
    /\ ~(Range(PrevEventIDs(newEvents[1])) \subseteq KnownAt(GapCall))

SnapshotCalls ==
    {n \in Handoffs : calls[n].op = "SendEventWithState" /\ calls[n].pdu = i}

\* C15 as claimed (Gap needing a snapshot, S5): when e has the unknown prev
\* event p, LookupMissingEvents returns [p] and a prev event of p is
\* unknown too, exactly one SendEventWithState call is made, it carries
\* the event e, and the result of e is empty.
C15_SnapshotCarriesEvent ==
    (BackfillOver /\ SnapshotNeeded) =>
        /\ Cardinality(SnapshotCalls) = 1
        /\ \A n \in SnapshotCalls : calls[n].ev = GapEvent
        /\ GapEvent \in DOMAIN results /\ results[GapEvent] = ""

\* C15 as amended: in that case, provided no call fails or is cancelled and
\* p and e pass the auth checks, exactly one SendEventWithState call is
\* made; it carries the state resolved at p together with the event p, on
\* which the auth check against that state was made; e is handed off
\* after it via SendEvents, and the result of e is empty.
C15_SnapshotCarriesExtremity ==
    (BackfillOver /\ SnapshotNeeded /\ NoFailureAfter(GapCall)) =>
        LET sentAfter == HandoffsAfter(GapCall) IN
        /\ Cardinality(SnapshotCalls) = 1
        /\ \A n \in SnapshotCalls :
              /\ calls[n].ev = newEvents[1]
              /\ calls[n - 1].op = "Allowed"
              /\ calls[n - 1].ev = newEvents[1]
              /\ calls[n - 1].ctx = "resolved"
        /\ Len(sentAfter) = 2
        /\ sentAfter[1].op = "SendEventWithState" /\ sentAfter[1].ev = newEvents[1]
        /\ sentAfter[2].op = "SendEvents" /\ sentAfter[2].ev = GapEvent
        /\ GapEvent \in DOMAIN results /\ results[GapEvent] = ""

\* the snapshot was handed off and e accepted
C15_Witness ==
    /\ pc = "done" /\ code = 200
    /\ SnapshotNeeded /\ NoFailureAfter(GapCall)
    /\ Cardinality(SnapshotCalls) = 1
    /\ results[GapEvent] = ""

\* C16 (EDU isolation): nothing that happens to an EDU changes the
\* response: from the moment the EDU loop is entered the PDU result map and
\* the error of the transaction stay as they are (what the same
\* transaction without EDUs answers), the only response is a 200, and it
\* is given after every EDU of the list has been processed.
C16_EDUIsolation ==
    /\ []((pc = "done" /\ txnErr = NoError) => (code = 200 /\ u = Len(EDUs) + 1))
    /\ [][pc = "processEDUs" =>
            /\ results' = results
            /\ txnErr' = NoError
            /\ pc' \in {"processEDUs", "done"}
            /\ code' = (IF pc' = "done" THEN 200 ELSE 0)
            /\ pc' = "done" => u = Len(EDUs) + 1]_vars

\* SendTyping failed for the first EDU, the second one was still sent and
\* the PDU results were returned with a 200
C16_Witness ==
    /\ pc = "done" /\ code = 200
    /\ Len(EDUs) = 2
    /\ DOMAIN results # {}
    /\ \E n \in DOMAIN calls :
          /\ calls[n].op = "SendTyping" /\ calls[n].res = "err"
          /\ n + 1 \in DOMAIN calls
          /\ calls[n + 1].op = "SendTyping" /\ calls[n + 1].res = "ok"

IsSendTyping(c) == c.op = "SendTyping"

\* the arguments of the SendTyping calls made so far, in order
TypingCallArgs ==
    LET made == SelectSeq(calls, IsSendTyping)
    IN  [n \in DOMAIN made |-> made[n].args]

IsParsedTyping(edu) == edu.type = "m.typing" /\ edu.content # "garbage"

\* user_id, room_id, typing flag and a 30000 ms expiry for every m.typing
\* EDU of the list whose content parses, in list order
ExpectedTypingArgs ==
    LET typing == SelectSeq(EDUs, IsParsedTyping)
    IN  [n \in DOMAIN typing |->
            <<"@u:b", "!r:a", typing[n].content = "{!r:a,@u:b,true}", 30000>>]

\* C17 as claimed: every m.typing EDU whose content parses gets exactly one
\* SendTyping call with its user_id, room_id, typing flag and an expiry of
\* 30000 ms, in EDU list order, however PDU processing went; no other EDU
\* causes a call.
C17_TypingForwardedAlways ==
    pc = "done" => TypingCallArgs = ExpectedTypingArgs

\* C17 as amended: the same when the transaction is not aborted (PDUs may
\* have been skipped); when validation or a PDU aborts it no EDU is
\* processed.  At every moment the calls made are the first of the
\* expected ones.
C17_TypingForwarded ==
    /\ Len(TypingCallArgs) <= Len(ExpectedTypingArgs)
    /\ \A n \in DOMAIN TypingCallArgs : TypingCallArgs[n] = ExpectedTypingArgs[n]
    /\ (pc = "done" /\ txnErr = NoError) => TypingCallArgs = ExpectedTypingArgs
    /\ (pc = "done" /\ txnErr # NoError) => TypingCallArgs = <<>>

\* a PDU was skipped, and of the two EDUs, a typing stop and an unhandled
\* type, only the first was forwarded
C17_Witness ==
    /\ pc = "done" /\ code = 200
    /\ \E id \in DOMAIN results : results[id] # ""
    /\ Len(EDUs) = 2
    /\ EDUs[1].type = "m.typing" /\ EDUs[2].type = "m.receipt"
    /\ TypingCallArgs = <<(<<"@u:b", "!r:a", FALSE, 30000>>)>>

\* every input of the request, room events and invites
RequestInputs ==
    Range(request.InputRoomEvents) \cup Range(request.InputInviteEvents)

\* C18 (Atomic snapshot handoff): the inputs of one InputRoomEvents request
\* (the events of a state snapshot and the event handed off with it) are
\* applied all or none: when the request has returned, either every input
\* is applied and no error was returned, or no input is applied.
C18_AtomicInput ==
    inputPc = "returned" =>
        \/ roomserverDB = {}
        \/ inputErr = "nil" /\ roomserverDB = RequestInputs

\* C19 (Topology insertion is idempotent): inserting an event whose
\* event_id the table already holds returns no error and leaves the table
\* as it was, stored positions included, whatever was inserted before; the
\* table never holds two rows for one event_id.
C19_IdempotentInsert ==
    /\ [](\A a, b \in topology : a.event_id = b.event_id => a = b)
    /\ [][(\E held_row \in topology : held_row.event_id = lastInsert'.row.event_id) =>
            /\ topology' = topology
            /\ lastInsert'.err = NoError]_vars

\* an event was inserted again with other positions and the stored row
\* kept the old ones
C19_Witness ==
    /\ lastInsert.called
    /\ \E row \in topology :
          /\ row.event_id = lastInsert.row.event_id
          /\ row.room_id = lastInsert.row.room_id
          /\ row.topological_position # lastInsert.row.topological_position
          /\ row.stream_position # lastInsert.row.stream_position
    /\ Cardinality(topology) = 2

\* C20 (WriteOutputEvents): the producer is handed exactly one message per
\* update, in the order of the updates, each keyed by roomID and carrying
\* the JSON encoding of its update, in a single SendMessages call; when
\* the encoding of any update fails nothing is handed to the producer.
C20_OneMessagePerUpdate ==
    /\ writeErr = "none" => sent = <<>>
    /\ (\E n \in DOMAIN updates : updates[n] = "unencodable") =>
          /\ sent = <<>>
          /\ writeErr \in {"none", "marshalError"}
    /\ (writeErr # "none" /\ \A n \in DOMAIN updates : updates[n] # "unencodable") =>
          /\ Len(sent) = 1
          /\ Len(sent[1]) = Len(updates)
          /\ \A n \in DOMAIN updates :
                /\ sent[1][n].Key = roomID
                /\ sent[1][n].Topic = "roomserverOutput"
                /\ sent[1][n].Value = JSONMarshal(updates[n]).value
                /\ sent[1][n].Value # updates[n]

\* two different updates were written for a room
C20_Witness ==
    /\ writeErr = "nil"
    /\ Len(updates) = 2 /\ updates[1] # updates[2]
    /\ Len(sent) = 1 /\ Len(sent[1]) = 2
    /\ sent[1][1].Value # sent[1][2].Value

SnapshotOps == {"LookupStateIDs", "LookupState", "SendEventWithState"}

\* C21 (Snapshot only on re-entry): every SendEventWithState call, and every
\* remote state lookup that precedes it, is made by an Event Processor
\* invocation with isInboundTxn = false; an invocation with isInboundTxn =
\* true that finds missing prev events ends in a completed backfill or in
\* an error, and no failure of a local query (QueryLatestEventsAndState)
\* turns it into a state snapshot for the inbound event.
C21_SnapshotOnlyOnReentry ==
    /\ \A n \in DOMAIN calls : calls[n].op \in SnapshotOps => ~calls[n].inbound
    /\ \A n \in DOMAIN calls :
          (calls[n].op = "QueryLatestEventsAndState" /\ calls[n].res # "ok") =>
              \A m \in (n + 1)..Len(calls) : calls[m].pdu # calls[n].pdu

\* the error a failed call leaves its invocation with (lines 252-254, 264,
\* 277-279, 293, 346, 373-375, 580-582); failures that leave no failed call
\* in the log (state resolution, RespState.Check) are plain errors
FailureOf(c) ==
    CASE c.op = "QueryStateAfterEvents" /\ c.res = "noroom" -> "roomNotFoundError"
      [] c.op = "Allowed" /\ c.res = "denied"               -> "NotAllowed"
      [] c.op = "GetEvent" /\ c.res = "unparseable"         -> "unmarshalError"
      [] c.op = "GetEvent" /\ c.res = "badsig"              -> "verifySigError"
      [] c.res = "cancelled"                                -> "cancelled"
      [] OTHER                                              -> "other"

\* the invocation for a returned event (not yet the one for e itself) runs
OnReturnedEvent ==
    /\ pc \notin {"validate", "processEDUs", "done", "panic"}
    /\ j \in 1..(Len(newEvents) - 1)

\* the step ends that invocation
LeavesInvocation == j' # j \/ i' # i \/ pc' \in {"processEDUs", "done"}

\* the step ends it with a successful handoff of the returned event
EndsWithHandoff ==
    /\ Len(calls') = Len(calls) + 1
    /\ calls'[Len(calls')].op \in HandoffOps
    /\ calls'[Len(calls')].res = "ok"

\* the error of the step that ends it otherwise
ErrorOfStep ==
    IF Len(calls') > Len(calls) THEN FailureOf(calls'[Len(calls')]) ELSE "other"

\* C22 (Failure of a backfilled event propagates unchanged): when the Event
\* Processor fails on an event returned by LookupMissingEvents the
\* invocation for the PDU e ends in that step: no further call is made for
\* it, so the remaining returned events and e are not processed and e is
\* not handed off by it; when the error is skippable it is recorded as the
\* result of e and the transaction goes on, any other error aborts the
\* transaction with that error.
C22_FailurePropagates ==
    [][(OnReturnedEvent /\ LeavesInvocation /\ ~EndsWithHandoff) =>
          /\ j' # j + 1
          /\ i' = i + 1 \/ pc' \in {"processEDUs", "done"}
          /\ IF Skippable(ErrorOfStep)
             THEN /\ results' = Put(results, pdus[i], ErrorOfStep)
                  /\ txnErr' = NoError
                  /\ pc' # "done"
             ELSE /\ txnErr' = ErrorOfStep
                  /\ pc' = "done"
                  /\ results' = results]_vars

\* the first of two returned events was turned down by the auth rules; the
\* second one and e were never processed and e has the error as its result
C22_Witness ==
    /\ pc = "done" /\ code = 200
    /\ Len(PDUs) = 1
    /\ Len(newEvents) = 3 /\ j = 1
    /\ results[PDUs[1]] = "NotAllowed"
    /\ calls[Len(calls)].op = "Allowed"
    /\ calls[Len(calls)].res = "denied"
    /\ calls[Len(calls)].ev = newEvents[1]
    /\ newEvents[1] # PDUs[1]
    /\ ~HandedOff(PDUs[1])

\* the Room-Server answered call n with RoomExists = false
NoRoom(n) == calls[n].op = "QueryStateAfterEvents" /\ calls[n].res = "noroom"

\* PrevEventsExist as the Room-Server saw it at call n
PrevEventsExistAt(ev, n) == Range(PrevEventIDs(ev)) \subseteq KnownAt(n)

\* call n is made by the invocation that made the call before it
SameInvocation(n) == calls[n].op \notin ValidationOps \cup {"processEvent", "SendTyping"}

\* C23 (Room check precedes gap recovery): when QueryStateAfterEvents
\* reports RoomExists = false the invocation ends there with RoomNotFound,
\* with no federation call, auth check or handoff, whether the prev events
\* exist or not; an invocation goes past the query only when the room
\* exists, to the auth check when the prev events exist and into gap
\* recovery when they do not.
C23_RoomCheckFirst ==
    /\ [](\A n \in DOMAIN calls :
            /\ NoRoom(n) =>
                  /\ calls[n - 1].op = "processEvent"
                  /\ n < Len(calls) => ~SameInvocation(n + 1)
            /\ (calls[n].op = "processEvent" /\ n + 2 \in DOMAIN calls
                  /\ SameInvocation(n + 2)) =>
                  /\ calls[n + 1].res = "ok"
                  /\ RoomID(calls[n].ev) \in LocalRooms
                  /\ calls[n + 2].op = "Allowed" <=> PrevEventsExistAt(calls[n].ev, n))
    /\ [][(/\ Len(calls') > Len(calls)
            /\ calls'[Len(calls')].op = "QueryStateAfterEvents"
            /\ calls'[Len(calls')].res = "noroom") =>
            /\ Len(calls') = Len(calls) + 2
            /\ results' = Put(results, pdus[i], "roomNotFoundError")
            /\ i' = i + 1 \/ pc' = "processEDUs"]_vars

\* the room was reported missing for an event whose prev event the
\* Room-Server lacked, and again after the prev event had been backfilled
C23_Witness ==
    /\ \E n \in DOMAIN calls : NoRoom(n) /\ ~PrevEventsExistAt(calls[n].ev, n)
    /\ \E n \in DOMAIN calls : NoRoom(n) /\ PrevEventsExistAt(calls[n].ev, n)

\* the GetEvent calls of lookupStateAfterEvent for a prev event (line 372)
PrevEventFetches ==
    {n \in DOMAIN calls : calls[n].op = "GetEvent" /\ calls[n].ev # "state"}

\* C25 (Remote event fetch only for unheld ids): during the state lookup
\* for a backwards extremity GetEvent is called only for event ids the
\* Room-Server does not hold, so no failure of a GetEvent for a held event
\* can fail the lookup.
C25_FetchOnlyUnheld ==
    \A n \in PrevEventFetches : calls[n].ev \notin KnownAt(n)

\* the depth the Room-Server reported before call n
LocalDepthAt(n) == ResDepth(KnownAt(n))

\* the forward extremities of what the Room-Server held before call n
ForwardExtremitiesAt(n) ==
    {ev \in KnownAt(n) : ~\E child \in KnownAt(n) : ev \in Range(PrevEventIDs(child))}

\* C28 (LookupMissingEvents request shape): the backfill request for the
\* top-level event e goes to the origin server of the transaction, for the
\* room of e, with limit = 20, min_depth = local_depth - 20 (not clamped
\* when local_depth is below 20), earliest_events = the local forward
\* extremities and latest_events = [e.event_id].
C28_RequestShape ==
    \A n \in LookupMissingCalls :
        /\ calls[n].ev = PDUs[calls[n].pdu]
        /\ calls[n].args[1] = "origin.example"
        /\ calls[n].args[2] = RoomID(calls[n].ev)
        /\ calls[n].args[3].Limit = 20
        /\ calls[n].args[3].MinDepth = LocalDepthAt(n) - 20
        /\ calls[n].args[3].EarliestEvents = ForwardExtremitiesAt(n)
        /\ calls[n].args[3].LatestEvents = <<calls[n].ev>>

\* one request went out with a negative min_depth, a later one, after the
\* room had grown, with min_depth = 0
C28_Witness ==
    \E n, m \in LookupMissingCalls :
        /\ n < m
        /\ calls[n].args[3].MinDepth < 0
        /\ calls[m].args[3].MinDepth = 0
        /\ calls[n].args[3].EarliestEvents # calls[m].args[3].EarliestEvents

\* C30: lookupEvent returns a non-nil event or a non-nil error for every
\* answer of the remote: when GetEvent succeeds with a transaction of zero
\* PDUs the caller gets an error and no nil event is dereferenced, so the
\* handler never ends in a nil-pointer panic.
C30_EventOrError == pc # "panic"

\* the lookup went on to /state
FallbackEntered ==
    lookupPc = "LookupState" \/ \E l \in lookupLog : l.op = "LookupState"

StateIDsCallFailed == LogEntry("LookupStateIDs", "", "err") \in lookupLog

\* a step after the successful /state_ids call failed: the local
\* QueryEventsByID, a GetEvent for a missing id or a missing auth event
LaterCallFailed ==
    \E l \in lookupLog :
        \/ l.op = "QueryEventsByID" /\ l.res = "err"
        \/ l.op = "GetEvent" /\ l.res \in {"error", "unparseable", "badsig"}

\* every missing id was fetched and still an id of the /state_ids answer
\* has no event: the RespState could not be assembled (lines 657-668)
AssemblyFailed ==
    /\ lookupPc \in {"LookupState", "returned"}
    /\ LogEntry("LookupStateIDs", "", "ok") \in lookupLog
    /\ ~LaterCallFailed
    /\ missingIDs = {}
    /\ ~(Range(stateIDs.StateEventIDs) \cup Range(stateIDs.AuthEventIDs)
            \subseteq haveEventMap)

\* C24 as claimed (Fallback to /state only on /state_ids failure):
\* LookupState is called only when the LookupStateIDs call itself failed;
\* when LookupStateIDs succeeded and a later step fails, LookupState is not
\* attempted and the state lookup fails.
C24_FallbackOnlyOnStateIDsFailure ==
    /\ FallbackEntered => StateIDsCallFailed
    /\ (lookupPc = "returned" /\ (LaterCallFailed \/ AssemblyFailed)) =>
          lookupErr # NoError

\* C24 as amended: LookupState is called exactly when the /state_ids path
\* ended in an error, whichever step it was (the LookupStateIDs call, the
\* local QueryEventsByID, a GetEvent for a missing id or a missing auth
\* event, assembling the RespState), and never after a local answer or a
\* successful /state_ids path; it is called once, and the state lookup
\* fails only when LookupState fails too.
C24_FallbackOnAnyError ==
    /\ [](FallbackEntered <=>
            /\ lookupPc \in {"LookupState", "returned"}
            /\ StateIDsCallFailed \/ LaterCallFailed \/ AssemblyFailed)
    /\ []((lookupPc = "returned" /\ lookupErr # NoError) =>
            \E l \in lookupLog : l.op = "LookupState" /\ l.res # "ok")
    /\ [][lookupPc = "LookupState" => lookupPc' = "returned"]_vars

\* /state_ids answered, a GetEvent for a missing id failed, and /state
\* gave the state
C24_Witness ==
    /\ lookupPc = "returned" /\ lookupErr = NoError
    /\ LogEntry("LookupStateIDs", "", "ok") \in lookupLog
    /\ \E l \in lookupLog : l.op = "GetEvent" /\ l.res = "badsig"
    /\ LogEntry("LookupState", "", "ok") \in lookupLog

\* C27 (the missing-auth-event retry loop terminates): whatever the remote
\* answers, also an event other than the one asked for, the validation of
\* an assembled RespState makes finitely many GetEvent fetches and then
\* ends, with the RespState or with an error.
C27_RetryTerminates == (lookupPc = "retryCheck") ~> (lookupPc # "retryCheck")

\* the ids the Room-Server returned from QueryStateAfterEvents or
\* QueryEventsByID during the lookup
LocallyReturned == {l.id : l \in {r \in lookupLog : r.res = "returned"}}

\* the ids the lookup asked the remote for
RemotelyFetched == {l.id : l \in {r \in lookupLog : r.op = "GetEvent"}}

\* C29 (have_event_ids soundness): every id in haveEventIDs is the id of an
\* event the Room-Server returned from QueryStateAfterEvents or
\* QueryEventsByID during the lookup; no event that came from the remote
\* only (GetEvent, LookupState) is marked as held, also when the /state_ids
\* path failed part-way and /state was used.
C29_HaveEventIDsSound ==
    /\ haveEventIDs \subseteq LocallyReturned
    /\ haveEventIDs \subseteq localEvents
    /\ haveEventIDs \cap RemotelyFetched = {}
    /\ WrongEvent \notin haveEventIDs

\* the /state_ids path held one event, fetched others and then failed in
\* the retry loop; /state gave the state and the held id is still marked
C29_Witness ==
    /\ lookupPc = "returned" /\ lookupErr = NoError
    /\ LogEntry("LookupState", "", "ok") \in lookupLog
    /\ haveEventIDs # {}
    /\ \E l \in lookupLog : l.op = "GetEvent" /\ l.res = "event"
    /\ respState.StateEvents \ haveEventIDs # {}

\* the events the snapshot holds for the type and state key of ev
SnapshotEntries(ev) ==
    {n \in DOMAIN rolled.StateEvents :
        /\ rolled.StateEvents[n].type = ev.type
        /\ rolled.StateEvents[n].state_key = ev.state_key}

\* C26 (State roll-forward): when the backwards extremity e is a state
\* event the state snapshot returned for "after e" maps the type and state
\* key of e to e itself, whether the resolved prior state had an entry for
\* that key or had none.
C26_RollForward ==
    (rolled.done /\ extremity.state_key # "nil") =>
        /\ SnapshotEntries(extremity) # {}
        /\ \A n \in SnapshotEntries(extremity) : rolled.StateEvents[n] = extremity

\* the events of the RespState of the lookup
SnapshotEvents == respState.AuthEvents \cup respState.StateEvents

\* the events of the RespState that came through GetEvent: the Room-Server
\* did not return them and /state was not used
ObtainedThroughGetEvent ==
    {ev \in SnapshotEvents :
        /\ ev \notin LocallyReturned
        /\ LogEntry("LookupState", "", "ok") \notin lookupLog}

\* C31 (Requested-id binding): every event obtained through GetEvent and
\* placed into a state snapshot (as a prev event, state event or auth event)
\* has the event id that was requested; an event the remote returned under
\* a different id is never used in place of the requested one.
C31_RequestedIdBinding ==
    (lookupPc = "returned" /\ lookupErr = NoError) =>
        \A ev \in ObtainedThroughGetEvent :
            /\ ev # WrongEvent
            /\ LogEntry("GetEvent", ev, "event") \in lookupLog

\* processTransaction returned an error of the Event Processor
AbortedInProcessing == pc = "done" /\ ProcessingBegan /\ txnErr # NoError

\* the PDUs before the one the transaction stopped at
PDUsBefore(n) == {pdus[m] : m \in 1..(n - 1)}

\* C32 (No rollback on abort): when the transaction aborts with a
\* non-skippable error while processing PDU k, the hand-offs made for the
\* PDUs before k and for backfilled ancestors stay as they were made (no
\* step takes one back, the aborting step and the steps after it included),
\* the response carries no result map, and no later PDU and no EDU of the
\* transaction is processed.
C32_NoRollbackOnAbort ==
    /\ [](AbortedInProcessing =>
            /\ ~Skippable(txnErr)
            /\ ResponseJSON(txnErr).kind # "RespSend"
            /\ ResponseJSON(txnErr).PDUs = <<>>
            /\ code \in {400, 500}
            /\ DOMAIN results \subseteq PDUsBefore(i)
            /\ \A id \in DOMAIN results : results[id] = "" =>
                  \E n \in Handoffs : calls[n].ev = id /\ calls[n].res = "ok"
            /\ \A n \in DOMAIN calls :
                  calls[n].op \notin ValidationOps => calls[n].pdu \in 1..i
            /\ \A n \in DOMAIN calls : calls[n].op # "SendTyping"
            /\ u = 1)
    /\ [][/\ \A n \in Handoffs : n \in DOMAIN calls' /\ calls'[n] = calls[n]
          /\ AbortedInProcessing => calls' = calls /\ results' = results]_vars

\* PDU 1 was accepted after an ancestor of it was backfilled and handed
\* off, then PDU 2 aborted the transaction, which also carried an EDU
C32_Witness ==
    /\ AbortedInProcessing
    /\ Len(PDUs) = 2 /\ i = 2 /\ Len(EDUs) = 1
    /\ EDUs[1].type = "m.typing"
    /\ results[PDUs[1]] = ""
    /\ \E n \in Handoffs :
          calls[n].pdu = 1 /\ calls[n].ev \notin Range(PDUs) /\ calls[n].res = "ok"
    /\ \E n \in Handoffs : calls[n].pdu = 1 /\ calls[n].ev = PDUs[1]

\* the rows of the room the claim names for the call
RowsInRange ==
    {row \in topology :
        /\ row.room_id = lastSelect.roomID
        /\ \/ /\ lastSelect.fromPos < row.topological_position
              /\ row.topological_position < lastSelect.toPos
           \/ /\ row.topological_position = lastSelect.toPos
              /\ row.stream_position <= lastSelect.toMicroPos}

\* the row of a returned event id
RowOf(id) == CHOOSE row \in topology : row.event_id = id

\* C33 (Range selection is room-scoped): selectEventIDsInRange(roomID,
\* fromPos, toPos, toMicroPos, limit, order) returns only event ids of rows
\* of the room roomID that lie in the range, in the order of
\* (topological_position, stream_position), ascending when chronological
\* and descending otherwise, and the first limit of them.
C33_RangeIsRoomScoped ==
    lastSelect.called =>
        LET ids == lastSelect.eventIDs IN
        /\ \A n \in DOMAIN ids :
              /\ \E row \in RowsInRange : row.event_id = ids[n]
              /\ RowOf(ids[n]).room_id = lastSelect.roomID
        /\ \A m, n \in DOMAIN ids :
              m < n => SortsBefore(RowOf(ids[m]), RowOf(ids[n]),
                                   lastSelect.chronologicalOrder)
        /\ Len(ids) = IF lastSelect.limit < Cardinality(RowsInRange)
                      THEN lastSelect.limit ELSE Cardinality(RowsInRange)
        /\ \A row \in RowsInRange :
              (\A n \in DOMAIN ids : ids[n] # row.event_id) =>
                  \A n \in DOMAIN ids :
                      SortsBefore(RowOf(ids[n]), row, lastSelect.chronologicalOrder)

====
